---- MODULE Spec2Model ----
(***************************************************************************)
(* Model of agent-sandbox: the permission gate (permissions.rs), the       *)
(* virtual filesystem (virtual_fs.rs) and the sandbox session that         *)
(* mediates command execution (sandbox.rs).                                *)
(*                                                                         *)
(* Representation.  A Rust String is a sequence of one-character strings,  *)
(* so that str::contains and the tokenizer work on characters.  A Path is  *)
(* the sequence of its components, which is what Path::starts_with         *)
(* compares.  A HashMap is a function whose DOMAIN is the key set.  A      *)
(* SandboxResult is a record with ok |-> TRUE and a value, or ok |-> FALSE *)
(* and the error variant.  Text that the program only formats for a reader *)
(* (captured output, narratives) is a record naming what it is.  The       *)
(* executed_at stamp of a record is left out: nothing reads it.            *)
(***************************************************************************)
EXTENDS Integers, Sequences, FiniteSets, TLC

VARIABLES
    mode,               \* Sandbox.mode
    allow_all,          \* Sandbox.allow_all
    permissions,        \* Sandbox.permissions : PermissionGate
    execution_history,  \* Sandbox.execution_history : Vec<ExecutionResult>
    pending_approvals,  \* Sandbox.pending_approvals : HashMap<id, ExecutionResult>
    virtual_fs,         \* Sandbox.virtual_fs : VirtualFilesystem
    working_dir,        \* Sandbox.working_dir
    uuids,              \* number of ids Uuid::new_v4 has handed out (each one fresh)
    spawned,            \* the calls the last operation made to the process executor (Command::output)
    issued,             \* ids returned by a submit as PendingApproval, not approved or reset since
    baseline,           \* the live mapping as the last successful mount left it (None before one)
    result              \* what the last operation returned to its caller

vars == <<mode, allow_all, permissions, execution_history, pending_approvals,
          virtual_fs, working_dir, uuids, spawned, issued, baseline, result>>

\* Option: None is the empty sequence, Some(x) the one-element sequence
None == <<>>
Some(x) == <<x>>

\* ------------------------------------------------------------------------
\* Strings used by the program and by the inputs
\* ------------------------------------------------------------------------
s_git == <<"g","i","t">>
s_npm == <<"n","p","m">>
s_yarn == <<"y","a","r","n">>
s_file_read == <<"f","i","l","e","_","r","e","a","d">>
s_file_write == <<"f","i","l","e","_","w","r","i","t","e">>
s_curl == <<"c","u","r","l">>
s_rm == <<"r","m">>
s_sudo == <<"s","u","d","o">>
s_chmod == <<"c","h","m","o","d">>
s_ls == <<"l","s">>
s_echo == <<"e","c","h","o">>
s_tee == <<"t","e","e">>
s_cat == <<"c","a","t">>
s_status == <<"s","t","a","t","u","s">>
s_diff == <<"d","i","f","f">>
s_log == <<"l","o","g">>
s_add == <<"a","d","d">>
s_commit == <<"c","o","m","m","i","t">>
s_push == <<"p","u","s","h">>
s_pull == <<"p","u","l","l">>
s_install == <<"i","n","s","t","a","l","l">>
s_run == <<"r","u","n">>
s_test == <<"t","e","s","t">>
s_build == <<"b","u","i","l","d">>
s_x_get == <<"-","X"," ","G","E","T">>
s_x_head == <<"-","X"," ","H","E","A","D">>
s_r == <<"-","r">>
s_rf == <<"-","r","f">>
s_x == <<"x">>

\* Paths, as sequences of components (each component a string; RootDir is "/")
n_root == <<"/">>
n_tmp == <<"t","m","p">>
n_etc == <<"e","t","c">>
n_f == <<"f">>
n_y == <<"y">>
p_root == <<n_root>>
p_tmp == <<n_root, n_tmp>>
p_tmp_x == <<n_root, n_tmp, s_x>>
p_tmp_x_f == <<n_root, n_tmp, s_x, n_f>>
p_tmp_y == <<n_root, n_tmp, n_y>>
p_etc == <<n_root, n_etc>>

\* ------------------------------------------------------------------------
\* permissions.rs
\* ------------------------------------------------------------------------
PermissionLevel == {"Denied", "ReadOnly", "Execute", "Full"}

\* PermissionLevel::default
PermissionLevel_default == "Denied"

\* ToolPermission::new
ToolPermission_new(name) ==
    [name |-> name, level |-> PermissionLevel_default,
     allowed_paths |-> <<>>, denied_paths |-> <<>>, allowed_args |-> <<>>,
     requires_approval |-> FALSE]

with_level(p, level) == [p EXCEPT !.level = level]
allow_path(p, path) == [p EXCEPT !.allowed_paths = Append(@, path)]
deny_path(p, path) == [p EXCEPT !.denied_paths = Append(@, path)]
allow_arg(p, arg) == [p EXCEPT !.allowed_args = Append(@, arg)]
set_requires_approval(p) == [p EXCEPT !.requires_approval = TRUE]

\* str::contains: the pattern occurs at some offset of s
str_contains(s, pat) ==
    \E k \in 0..(Len(s) - Len(pat)) : SubSeq(s, k + 1, k + Len(pat)) = pat

\* Path::starts_with: base's components are a prefix of path's components
path_starts_with(path, base) ==
    /\ Len(base) <= Len(path)
    /\ \A i \in 1..Len(base) : path[i] = base[i]

\* A plausible slip in check_args: every argument must match
check_args_all(p, args) ==
    IF p.allowed_args = <<>> THEN TRUE
    ELSE \A i \in 1..Len(args) :
            \E j \in 1..Len(p.allowed_args) :
                args[i] = p.allowed_args[j] \/ str_contains(args[i], p.allowed_args[j])

\* ToolPermission::check_args
check_args(p, args) ==
    IF p.allowed_args = <<>> THEN TRUE
    ELSE \E i \in 1..Len(args) :
            \E j \in 1..Len(p.allowed_args) :
                args[i] = p.allowed_args[j] \/ str_contains(args[i], p.allowed_args[j])

\* A plausible slip in check_path: the allow-list is consulted before the deny-list
ToolPermission_check_path_allow_first(p, path) ==
    IF p.allowed_paths # <<>>
       /\ \E i \in 1..Len(p.allowed_paths) : path_starts_with(path, p.allowed_paths[i])
    THEN TRUE
    ELSE IF \E i \in 1..Len(p.denied_paths) : path_starts_with(path, p.denied_paths[i])
    THEN FALSE
    ELSE p.allowed_paths = <<>>

\* ToolPermission::check_path
ToolPermission_check_path(p, path) ==
    IF \E i \in 1..Len(p.denied_paths) : path_starts_with(path, p.denied_paths[i])
    THEN FALSE
    ELSE IF p.allowed_paths = <<>>
    THEN TRUE
    ELSE \E i \in 1..Len(p.allowed_paths) : path_starts_with(path, p.allowed_paths[i])

\* PermissionGate::new
PermissionGate_new ==
    [tools |-> {}, permissions |-> <<>>,
     default_level |-> "Execute", allow_unknown |-> FALSE]

\* HashMap::insert on a function
MapInsert(m, k, v) == [x \in (DOMAIN m) \cup {k} |-> IF x = k THEN v ELSE m[x]]

\* HashMap::remove on a function
MapRemove(m, k) == [x \in (DOMAIN m) \ {k} |-> m[x]]

\* PermissionGate::register_tool
register_tool(gate, p) ==
    [gate EXCEPT !.tools = @ \cup {p.name},
                 !.permissions = MapInsert(@, p.name, p)]

\* PermissionGate::set_default_level
set_default_level(gate, level) == [gate EXCEPT !.default_level = level]

\* PermissionGate::allow_unknown
allow_unknown(gate) == [gate EXCEPT !.allow_unknown = TRUE]

Ok(v) == [ok |-> TRUE, value |-> v]
Err(e) == [ok |-> FALSE, error |-> e]

\* A plausible slip in check_tool: an unknown tool falls back to the default level
check_tool_lenient(gate, tool) ==
    IF tool \in DOMAIN gate.permissions
    THEN Ok(gate.permissions[tool].level)
    ELSE Ok(gate.default_level)

\* A plausible slip in check_tool: an unknown tool that is let through gets
\* the level Execute, not the gate's default_level
check_tool_unknown_execute(gate, tool) ==
    IF tool \in DOMAIN gate.permissions
    THEN Ok(gate.permissions[tool].level)
    ELSE IF gate.allow_unknown
    THEN Ok("Execute")
    ELSE Err("PermissionDenied")

\* PermissionGate::check_tool
check_tool(gate, tool) ==
    IF tool \in DOMAIN gate.permissions
    THEN Ok(gate.permissions[tool].level)
    ELSE IF gate.allow_unknown
    THEN Ok(gate.default_level)
    ELSE Err("PermissionDenied")

\* PermissionGate::check_command
check_command(gate, tool, args) ==
    LET level == check_tool(gate, tool) IN
    IF ~level.ok THEN level
    ELSE IF tool \in DOMAIN gate.permissions /\ ~check_args(gate.permissions[tool], args)
    THEN Err("PermissionDenied")
    ELSE level

\* PermissionGate::check_path
check_path(gate, tool, path) ==
    LET level == check_tool(gate, tool) IN
    IF ~level.ok THEN level
    ELSE IF level.value = "Denied" THEN Ok(FALSE)
    ELSE IF tool \in DOMAIN gate.permissions
    THEN Ok(ToolPermission_check_path(gate.permissions[tool], path))
    ELSE Ok(TRUE)

\* A plausible slip in requires_approval: the lookup falls back to false for
\* every tool
requires_approval_never(gate, tool) == FALSE

\* PermissionGate::requires_approval
requires_approval(gate, tool) ==
    IF tool \in DOMAIN gate.permissions
    THEN gate.permissions[tool].requires_approval
    ELSE FALSE

\* PermissionGate::default_permissions
default_permissions ==
    LET g1 == register_tool(PermissionGate_new,
                set_requires_approval(
                allow_arg(allow_arg(allow_arg(allow_arg(allow_arg(allow_arg(allow_arg(
                allow_path(with_level(ToolPermission_new(s_git), "Full"), p_root),
                s_status), s_diff), s_log), s_add), s_commit), s_push), s_pull)))
        g2 == register_tool(g1,
                allow_arg(allow_arg(allow_arg(allow_arg(
                allow_path(with_level(ToolPermission_new(s_npm), "Execute"), p_root),
                s_install), s_run), s_test), s_build))
        g3 == register_tool(g2,
                allow_arg(allow_arg(allow_arg(allow_arg(
                allow_path(with_level(ToolPermission_new(s_yarn), "Execute"), p_root),
                s_install), s_run), s_test), s_build))
        g4 == register_tool(g3,
                allow_path(with_level(ToolPermission_new(s_file_read), "ReadOnly"), p_root))
        g5 == register_tool(g4,
                allow_path(with_level(ToolPermission_new(s_file_write), "Execute"), p_root))
        g6 == register_tool(g5,
                allow_arg(allow_arg(
                with_level(ToolPermission_new(s_curl), "ReadOnly"), s_x_get), s_x_head))
        g7 == register_tool(g6,
                set_requires_approval(
                allow_path(with_level(ToolPermission_new(s_rm), "Execute"), p_tmp)))
        g8 == register_tool(g7, with_level(ToolPermission_new(s_sudo), "Denied"))
        g9 == register_tool(g8,
                set_requires_approval(with_level(ToolPermission_new(s_chmod), "Execute")))
    IN g9

\* ------------------------------------------------------------------------
\* Inputs of the permission-gate specification
\* ------------------------------------------------------------------------
MaxEntries == 1

SeqsUpTo(S, n) == UNION {[1..k -> S] : k \in 0..n}

RegistrableNames == {s_rm}
QueryTools == {s_rm, s_ls}
ArgEntries == {s_r, s_rf}
QueryArgs == {<<>>, <<s_rf>>, <<s_r>>, <<s_x>>, <<s_x, s_rf>>}
PathEntries == {p_tmp, p_tmp_x}
QueryPaths == {p_tmp, p_tmp_x_f, p_tmp_y, p_etc}

RECURSIVE allow_paths(_, _)
allow_paths(p, paths) ==
    IF paths = <<>> THEN p ELSE allow_paths(allow_path(p, Head(paths)), Tail(paths))

RECURSIVE deny_paths(_, _)
deny_paths(p, paths) ==
    IF paths = <<>> THEN p ELSE deny_paths(deny_path(p, Head(paths)), Tail(paths))

RECURSIVE allow_args(_, _)
allow_args(p, args) ==
    IF args = <<>> THEN p ELSE allow_args(allow_arg(p, Head(args)), Tail(args))

\* A ToolPermission as a caller builds it: new(name) followed by builder calls
BuildPermission(name, level, allowed, denied, args, approval) ==
    LET p == allow_args(deny_paths(allow_paths(
                 with_level(ToolPermission_new(name), level), allowed), denied), args)
    IN IF approval THEN set_requires_approval(p) ELSE p

\* ------------------------------------------------------------------------
\* The permission gate on its own: a gate as a caller configures it, and the
\* queries applied to it
\* ------------------------------------------------------------------------
SessionUnchanged ==
    UNCHANGED <<mode, allow_all, execution_history, pending_approvals,
                virtual_fs, working_dir, uuids, spawned, issued, baseline>>

ToolPermissions ==
    { BuildPermission(name, level, allowed, denied, args, approval) :
        name \in RegistrableNames, level \in PermissionLevel,
        allowed \in SeqsUpTo(PathEntries, MaxEntries),
        denied \in SeqsUpTo(PathEntries, MaxEntries),
        args \in SeqsUpTo(ArgEntries, MaxEntries), approval \in BOOLEAN }

\* PermissionGate::new, then at most one register_tool, allow_unknown or not,
\* set_default_level or not
ConfiguredGates ==
    LET registered == {PermissionGate_new}
                      \cup {register_tool(PermissionGate_new, p) : p \in ToolPermissions}
        unknown == registered \cup {allow_unknown(g) : g \in registered}
    IN unknown \cup {set_default_level(g, level) : g \in unknown, level \in PermissionLevel}

CheckTool(tool) ==
    /\ result' = [op |-> "check_tool", tool |-> tool, ret |-> check_tool(permissions, tool)]
    /\ UNCHANGED permissions
    /\ SessionUnchanged

CheckCommand(tool, args) ==
    /\ result' = [op |-> "check_command", tool |-> tool, args |-> args,
                  ret |-> check_command(permissions, tool, args)]
    /\ UNCHANGED permissions
    /\ SessionUnchanged

CheckPath(tool, path) ==
    /\ result' = [op |-> "check_path", tool |-> tool, path |-> path,
                  ret |-> check_path(permissions, tool, path)]
    /\ UNCHANGED permissions
    /\ SessionUnchanged

RequiresApproval(tool) ==
    /\ result' = [op |-> "requires_approval", tool |-> tool,
                  ret |-> requires_approval(permissions, tool)]
    /\ UNCHANGED permissions
    /\ SessionUnchanged

InitGate ==
    /\ permissions \in ConfiguredGates
    /\ mode = "Live"
    /\ allow_all = FALSE
    /\ execution_history = <<>>
    /\ pending_approvals = <<>>
    /\ virtual_fs = [files |-> <<>>, deleted_files |-> <<>>, mount_points |-> <<>>]
    /\ working_dir = p_root
    /\ uuids = 0
    /\ spawned = <<>>
    /\ issued = <<>>
    /\ baseline = None
    /\ result = [op |-> "new"]

NextGate ==
    \/ \E tool \in QueryTools : CheckTool(tool)
    \/ \E tool \in QueryTools, args \in QueryArgs : CheckCommand(tool, args)
    \/ \E tool \in QueryTools, path \in QueryPaths : CheckPath(tool, path)
    \/ \E tool \in QueryTools : RequiresApproval(tool)

SpecGate == InitGate /\ [][NextGate]_vars

\* ------------------------------------------------------------------------
\* virtual_fs.rs
\* ------------------------------------------------------------------------
\* Sha256 + hex::encode: an injective digest of the content
compute_hash(content) == <<"sha256", content>>

\* VirtualFile::new, with the hash of the empty content
VirtualFile_new_stale_hash(path, content, now) ==
    [path |-> path, content |-> content, permissions |-> 420,
     is_executable |-> FALSE, hash |-> compute_hash(<<>>),
     created_at |-> now, modified_at |-> now]

\* VirtualFile::new; now is chrono::Utc::now().timestamp() as read by this call
VirtualFile_new(path, content, now) ==
    [path |-> path, content |-> content, permissions |-> 420 (* 0o644 *),
     is_executable |-> FALSE, hash |-> compute_hash(content),
     created_at |-> now, modified_at |-> now]

\* VirtualFile::new_executable
VirtualFile_new_executable(path, content, now) ==
    [VirtualFile_new(path, content, now) EXCEPT
        !.is_executable = TRUE, !.permissions = 493 (* 0o755 *)]

\* VirtualFile::update_content
update_content(file, content, now) ==
    [file EXCEPT !.hash = compute_hash(content), !.content = content, !.modified_at = now]

\* VirtualFilesystem::new
VirtualFilesystem_new == [files |-> <<>>, deleted_files |-> <<>>, mount_points |-> <<>>]

\* Relative paths of files, contents, and clock readings
f_a == << <<"a",".","t","x","t">> >>
f_run == << <<"b","i","n">>, s_run >>
c_one == <<"a", "\n">>
c_two == <<"a", "\n", "b", "\n">>
c_bin == <<"a", "0xFF">>
Times == {1, 2}

\* The real directories a mount can be given: each existing directory with the
\* regular files WalkDir yields, in walk order
d_work == <<n_root, <<"w","o","r","k">> >>
d_locked == <<n_root, <<"l","o","c","k","e","d">> >>
d_missing == <<n_root, <<"m","i","s","s","i","n","g">> >>
Disk ==
    (d_work :> << [path |-> f_a, content |-> c_one, executable |-> FALSE, readable |-> TRUE],
                  [path |-> f_run, content |-> c_two, executable |-> TRUE, readable |-> TRUE] >>)
    @@
    (d_locked :> << [path |-> f_a, content |-> c_two, executable |-> FALSE, readable |-> TRUE],
                    [path |-> f_run, content |-> c_one, executable |-> TRUE, readable |-> FALSE] >>)

\* Path::exists on the real filesystem
path_exists(path) == path \in DOMAIN Disk

\* The loop of VirtualFilesystem::mount from entry i on; clock[i] is the time
\* VirtualFile::new reads for entry i.  std::fs::read failing on an entry
\* returns the error with the earlier entries already inserted.
RECURSIVE mount_walk(_, _, _, _)
mount_walk(files, entries, clock, i) ==
    IF i > Len(entries) THEN [files |-> files, ret |-> Ok("unit")]
    ELSE LET e == entries[i] IN
         IF ~e.readable THEN [files |-> files, ret |-> Err("IoError")]
         ELSE mount_walk(
                MapInsert(files, e.path,
                    IF e.executable
                    THEN VirtualFile_new_executable(e.path, e.content, clock[i])
                    ELSE VirtualFile_new(e.path, e.content, clock[i])),
                entries, clock, i + 1)

\* VirtualFilesystem::mount
mount(vfs, path, clock) ==
    IF ~path_exists(path) THEN [vfs |-> vfs, ret |-> Err("FileSystemError")]
    ELSE LET walked == mount_walk(vfs.files, Disk[path], clock, 1) IN
         [vfs |-> [vfs EXCEPT !.mount_points = Append(@, path), !.files = walked.files],
          ret |-> walked.ret]

\* VirtualFilesystem::read
read(vfs, path) ==
    IF path \in DOMAIN vfs.files THEN Ok(vfs.files[path].content)
    ELSE Err("VirtualFileNotFound")

\* VirtualFilesystem::write
write(vfs, path, content, now) ==
    [vfs EXCEPT !.files = MapInsert(@, path, VirtualFile_new(path, content, now))]

\* VirtualFilesystem::delete
delete(vfs, path) ==
    IF path \in DOMAIN vfs.files
    THEN [vfs |-> [vfs EXCEPT !.files = MapRemove(@, path),
                              !.deleted_files = MapInsert(@, path, vfs.files[path])],
          ret |-> Ok("unit")]
    ELSE [vfs |-> vfs, ret |-> Err("VirtualFileNotFound")]

\* A plausible slip in exists: only the live mapping is looked at
exists_live_only(vfs, path) == path \in DOMAIN vfs.files

\* VirtualFilesystem::exists
exists(vfs, path) == path \in DOMAIN vfs.files \/ path \in DOMAIN vfs.deleted_files

\* VirtualFilesystem::list_files, as the set of keys (the Vec's order is the
\* HashMap's iteration order)
list_files(vfs) == DOMAIN vfs.files

\* FileDiff
FileDiff(path, operation, old_content, new_content) ==
    [path |-> path, operation |-> operation,
     old_content |-> old_content, new_content |-> new_content]

\* The orders in which a HashMap with these keys can be iterated
KeyOrders(keys) ==
    {order \in [1..Cardinality(keys) -> keys] :
        \A i, j \in 1..Cardinality(keys) : i # j => order[i] # order[j]}

\* A byte that is not valid UTF-8, and the replacement character
b_ff == "0xFF"
u_fffd == "U+FFFD"

\* String::from_utf8_lossy(..).to_string(): every invalid byte becomes U+FFFD
from_utf8_lossy(content) ==
    [i \in 1..Len(content) |-> IF content[i] = b_ff THEN u_fffd ELSE content[i]]

\* A plausible slip in get_diff: the live entries are reported as Added
get_diff_added(vfs, live_order, deleted_order) ==
    [i \in 1..Len(live_order) |->
        FileDiff(live_order[i], "Added", None,
                 Some(from_utf8_lossy(vfs.files[live_order[i]].content)))]
    \o
    [i \in 1..Len(deleted_order) |->
        FileDiff(deleted_order[i], "Deleted",
                 Some(from_utf8_lossy(vfs.deleted_files[deleted_order[i]].content)), None)]

\* VirtualFilesystem::get_diff; live_order and deleted_order are the orders
\* in which the two HashMaps are iterated
get_diff(vfs, live_order, deleted_order) ==
    [i \in 1..Len(live_order) |->
        FileDiff(live_order[i], "Modified", None,
                 Some(from_utf8_lossy(vfs.files[live_order[i]].content)))]
    \o
    [i \in 1..Len(deleted_order) |->
        FileDiff(deleted_order[i], "Deleted",
                 Some(from_utf8_lossy(vfs.deleted_files[deleted_order[i]].content)), None)]

\* VirtualFilesystem::reset, with the tombstones dropped instead of inserted
reset_discarding(vfs) == [vfs EXCEPT !.deleted_files = <<>>]

\* VirtualFilesystem::reset: every drained tombstone is inserted into files
reset(vfs) ==
    [vfs EXCEPT
        !.files = [x \in (DOMAIN vfs.files) \cup (DOMAIN vfs.deleted_files) |->
                     IF x \in DOMAIN vfs.deleted_files THEN vfs.deleted_files[x]
                     ELSE vfs.files[x]],
        !.deleted_files = <<>>]

\* VirtualFilesystem::commit
commit(vfs) == [vfs EXCEPT !.deleted_files = <<>>]

\* ------------------------------------------------------------------------
\* The filesystem shadow on its own
\* ------------------------------------------------------------------------
MaxMounts == 1

VfsPaths == {f_a, f_run}
VfsContents == {c_one, c_two, c_bin}
MountRoots == {d_work, d_locked, d_missing}

ShadowUnchanged ==
    UNCHANGED <<mode, allow_all, permissions, execution_history, pending_approvals,
                working_dir, uuids, spawned, issued>>

Mount(path, clock) ==
    /\ Len(virtual_fs.mount_points) < MaxMounts
    /\ LET r == mount(virtual_fs, path, clock) IN
        /\ virtual_fs' = r.vfs
        /\ result' = [op |-> "mount", path |-> path, ret |-> r.ret]
        /\ baseline' = IF r.ret.ok THEN Some(r.vfs.files) ELSE baseline
    /\ ShadowUnchanged

Read(path) ==
    /\ result' = [op |-> "read", path |-> path, ret |-> read(virtual_fs, path)]
    /\ UNCHANGED <<virtual_fs, baseline>>
    /\ ShadowUnchanged

Write(path, content, now) ==
    /\ virtual_fs' = write(virtual_fs, path, content, now)
    /\ result' = [op |-> "write", path |-> path]
    /\ UNCHANGED baseline
    /\ ShadowUnchanged

Delete(path) ==
    /\ LET r == delete(virtual_fs, path) IN
        /\ virtual_fs' = r.vfs
        /\ result' = [op |-> "delete", path |-> path, ret |-> r.ret]
    /\ UNCHANGED baseline
    /\ ShadowUnchanged

Exists(path) ==
    /\ result' = [op |-> "exists", path |-> path, ret |-> exists(virtual_fs, path)]
    /\ UNCHANGED <<virtual_fs, baseline>>
    /\ ShadowUnchanged

\* restored: the paths the drain of deleted_files yielded
VfsReset ==
    /\ virtual_fs' = reset(virtual_fs)
    /\ result' = [op |-> "reset", restored |-> DOMAIN virtual_fs.deleted_files]
    /\ UNCHANGED baseline
    /\ ShadowUnchanged

GetDiff(live_order, deleted_order) ==
    /\ result' = [op |-> "get_diff",
                  ret |-> get_diff(virtual_fs, live_order, deleted_order)]
    /\ UNCHANGED <<virtual_fs, baseline>>
    /\ ShadowUnchanged

Commit ==
    /\ virtual_fs' = commit(virtual_fs)
    /\ result' = [op |-> "commit"]
    /\ UNCHANGED baseline
    /\ ShadowUnchanged

InitVfs ==
    /\ virtual_fs = VirtualFilesystem_new
    /\ permissions = PermissionGate_new
    /\ mode = "Live"
    /\ allow_all = FALSE
    /\ execution_history = <<>>
    /\ pending_approvals = <<>>
    /\ working_dir = p_root
    /\ uuids = 0
    /\ spawned = <<>>
    /\ issued = <<>>
    /\ baseline = None
    /\ result = [op |-> "new"]

NextVfs ==
    \/ \E path \in MountRoots, clock \in [1..2 -> Times] : Mount(path, clock)
    \/ \E path \in VfsPaths : Read(path)
    \/ \E path \in VfsPaths, content \in VfsContents, now \in Times :
            Write(path, content, now)
    \/ \E path \in VfsPaths : Delete(path)
    \/ \E path \in VfsPaths : Exists(path)
    \/ VfsReset
    \/ \E live_order \in KeyOrders(DOMAIN virtual_fs.files),
          deleted_order \in KeyOrders(DOMAIN virtual_fs.deleted_files) :
            GetDiff(live_order, deleted_order)
    \/ Commit

SpecVfs == InitVfs /\ [][NextVfs]_vars

\* ------------------------------------------------------------------------
\* diff_engine.rs
\* ------------------------------------------------------------------------
\* similar::ChangeTag
ChangeTag == {"Equal", "Insert", "Delete"}

\* DiffChange
DiffChange(line_number, content, change_type) ==
    [line_number |-> line_number, content |-> content, change_type |-> change_type]

\* DiffHunk
DiffHunk(old_start, old_lines, new_start, new_lines, changes) ==
    [old_start |-> old_start, old_lines |-> old_lines,
     new_start |-> new_start, new_lines |-> new_lines, changes |-> changes]

\* The loop of unified_diff over diff.iter_all_changes() from change i on,
\* and the push of the hunk left open after it.  changes is what
\* TextDiff::from_lines(old, new) yields: a tag and the line's text each.
RECURSIVE unified_diff_loop(_, _, _, _, _, _)
unified_diff_loop(changes, i, hunks, current_hunk, old_line, new_line) ==
    IF i > Len(changes)
    THEN (IF current_hunk # None THEN Append(hunks, current_hunk[1]) ELSE hunks)
    ELSE LET change == changes[i]
             hunk == IF current_hunk = None
                     THEN DiffHunk(old_line + 1, 0, new_line + 1, 0, <<>>)
                     ELSE current_hunk[1]
         IN IF change.tag = "Delete"
            THEN unified_diff_loop(changes, i + 1, hunks,
                    Some([hunk EXCEPT !.old_lines = @ + 1,
                            !.changes = Append(@, DiffChange(old_line, change.value, "Delete"))]),
                    old_line + 1, new_line)
            ELSE IF change.tag = "Insert"
            THEN unified_diff_loop(changes, i + 1, hunks,
                    Some([hunk EXCEPT !.new_lines = @ + 1,
                            !.changes = Append(@, DiffChange(new_line, change.value, "Insert"))]),
                    old_line, new_line + 1)
            ELSE unified_diff_loop(changes, i + 1,
                    IF current_hunk # None THEN Append(hunks, current_hunk[1]) ELSE hunks,
                    None, old_line + 1, new_line + 1)

\* A plausible slip in unified_diff: a hunk's old_start is the 0-based cursor
unified_diff_zero_based(changes, old_path, new_path) ==
    LET hunks == unified_diff_loop(changes, 1, <<>>, None, 0, 0) IN
    [old_path |-> old_path, new_path |-> new_path,
     hunks |-> [k \in 1..Len(hunks) |-> [hunks[k] EXCEPT !.old_start = @ - 1]]]

\* DiffEngine::unified_diff, given the changes of TextDiff::from_lines(old, new)
unified_diff(changes, old_path, new_path) ==
    [old_path |-> old_path, new_path |-> new_path,
     hunks |-> unified_diff_loop(changes, 1, <<>>, None, 0, 0)]

\* The loop of diff_summary from change i on
RECURSIVE diff_summary_loop(_, _, _, _, _)
diff_summary_loop(changes, i, added, deleted, unchanged) ==
    IF i > Len(changes)
    THEN [added |-> added, deleted |-> deleted, unchanged |-> unchanged]
    ELSE IF changes[i].tag = "Delete"
    THEN diff_summary_loop(changes, i + 1, added, deleted + 1, unchanged)
    ELSE IF changes[i].tag = "Insert"
    THEN diff_summary_loop(changes, i + 1, added + 1, deleted, unchanged)
    ELSE diff_summary_loop(changes, i + 1, added, deleted, unchanged + 1)

\* DiffEngine::diff_summary, given the changes of TextDiff::from_lines(old, new)
DiffEngine_diff_summary(changes) == diff_summary_loop(changes, 1, 0, 0, 0)

\* DiffSummary::has_changes
has_changes(summary) == summary.added > 0 \/ summary.deleted > 0

\* ------------------------------------------------------------------------
\* The diff engine on its own: the change sequences the line diff can hand
\* to it, and the two summarizers applied to them
\* ------------------------------------------------------------------------
MaxChanges == 4

l_a == <<"a", "\n">>
l_b == <<"b", "\n">>
DiffLines == {l_a, l_b}

\* The changes between an old text whose lines are all l_a and a new text
\* with lines l_a and l_b
Changes ==
    {[tag |-> "Equal", value |-> l_a], [tag |-> "Delete", value |-> l_a]}
    \cup {[tag |-> "Insert", value |-> line] : line \in DiffLines}
ChangeSeqs == SeqsUpTo(Changes, MaxChanges)

UnifiedDiff(changes) ==
    /\ result' = [op |-> "unified_diff", changes |-> changes,
                  ret |-> unified_diff(changes, f_a, f_a)]
    /\ UNCHANGED <<virtual_fs, baseline>>
    /\ ShadowUnchanged

DiffSummary(changes) ==
    /\ result' = [op |-> "diff_summary", changes |-> changes,
                  ret |-> DiffEngine_diff_summary(changes)]
    /\ UNCHANGED <<virtual_fs, baseline>>
    /\ ShadowUnchanged

NextDiff ==
    \/ \E changes \in ChangeSeqs : UnifiedDiff(changes)
    \/ \E changes \in ChangeSeqs : DiffSummary(changes)

SpecDiff == InitVfs /\ [][NextDiff]_vars

\* ------------------------------------------------------------------------
\* sandbox.rs
\* ------------------------------------------------------------------------
ExecutionMode == {"Live", "Simulation", "Diff"}
ExecutionStatus == {"Success", "Failed", "Blocked", "Simulated", "PendingApproval"}

\* Text the program formats or captures: what it is, and the count it mentions
Text(kind, n) == [kind |-> kind, n |-> n]
EmptyString == Text("", 0)

s_staged == <<"(","s","t","a","g","e","d",")">>
s_would_be_updated ==
    <<"(","w","o","u","l","d"," ","b","e"," ","u","p","d","a","t","e","d",")">>
s_would_be_populated ==
    <<"(","w","o","u","l","d"," ","b","e"," ","p","o","p","u","l","a","t","e","d",")">>
s_would_be_written ==
    <<"(","w","o","u","l","d"," ","b","e"," ","w","r","i","t","t","e","n",")">>
n_package_lock ==
    <<"p","a","c","k","a","g","e","-","l","o","c","k",".","j","s","o","n">>
n_node_modules == <<"n","o","d","e","_","m","o","d","u","l","e","s">>

Whitespace == {" ", "\t", "\n", "\r"}

\* One iteration of the loop of shell_words::split on character c
split_step(st, c) ==
    IF st.escaped
    THEN [st EXCEPT !.current = Append(@, c), !.escaped = FALSE]
    ELSE IF c = "\\" /\ ~st.in_quotes
    THEN [st EXCEPT !.escaped = TRUE]
    ELSE IF c \in {"'", "\""} /\ st.in_quotes /\ c = st.quote_char
    THEN [st EXCEPT !.in_quotes = FALSE]
    ELSE IF c \in {"'", "\""} /\ ~st.in_quotes
    THEN [st EXCEPT !.in_quotes = TRUE, !.quote_char = c]
    ELSE IF c \in Whitespace /\ ~st.in_quotes
    THEN IF st.current # <<>>
         THEN [st EXCEPT !.words = Append(@, st.current), !.current = <<>>]
         ELSE st
    ELSE [st EXCEPT !.current = Append(@, c)]

RECURSIVE split_loop(_, _, _)
split_loop(input, i, st) ==
    IF i > Len(input) THEN st ELSE split_loop(input, i + 1, split_step(st, input[i]))

\* shell_words::split
split(input) ==
    LET st == split_loop(input, 1,
                [words |-> <<>>, current |-> <<>>, in_quotes |-> FALSE,
                 quote_char |-> " ", escaped |-> FALSE])
        words == IF st.current # <<>> THEN Append(st.words, st.current) ELSE st.words
    IN IF st.in_quotes THEN Err("Unclosed quote") ELSE Ok(words)

\* [String]::join
RECURSIVE join(_, _)
join(words, sep) ==
    IF words = <<>> THEN <<>>
    ELSE IF Len(words) = 1 THEN words[1]
    ELSE words[1] \o sep \o join(Tail(words), sep)

\* format!("{} {}", tool, args.join(" "))
format_command(tool, args) == tool \o <<" ">> \o join(args, <<" ">>)

\* str::trim_start_matches(">")
RECURSIVE trim_start_matches_gt(_)
trim_start_matches_gt(str) ==
    IF str # <<>> /\ str[1] = ">" THEN trim_start_matches_gt(Tail(str)) ELSE str

\* str::trim
RECURSIVE trim(_)
trim(str) ==
    IF str # <<>> /\ str[1] \in Whitespace THEN trim(Tail(str))
    ELSE IF str # <<>> /\ str[Len(str)] \in Whitespace THEN trim(SubSeq(str, 1, Len(str) - 1))
    ELSE str

\* The components of a path string from position i on: runs of characters
\* between separators; empty runs and "." are not components
RECURSIVE path_components(_, _, _)
path_components(str, i, current) ==
    LET run == IF current = <<>> \/ current = <<".">> THEN <<>> ELSE <<current>> IN
    IF i > Len(str) THEN run
    ELSE IF str[i] = "/" THEN run \o path_components(str, i + 1, <<>>)
    ELSE path_components(str, i + 1, Append(current, str[i]))

\* PathBuf::from(&str), as Path::components reads it: a leading "/" is the
\* root, a leading "." is kept
PathBuf_from(str) ==
    IF str # <<>> /\ str[1] = "/" THEN <<n_root>> \o path_components(str, 1, <<>>)
    ELSE IF str = <<".">> \/ (Len(str) >= 2 /\ str[1] = "." /\ str[2] = "/")
    THEN << <<".">> >> \o path_components(str, 1, <<>>)
    ELSE path_components(str, 1, <<>>)

\* str::lines().count()
RECURSIVE lines_count(_)
lines_count(str) ==
    IF str = <<>> THEN 0
    ELSE IF \E i \in 1..Len(str) : str[i] = "\n"
    THEN LET i == CHOOSE k \in 1..Len(str) :
                    str[k] = "\n" /\ \A j \in 1..(k - 1) : str[j] # "\n"
         IN 1 + lines_count(SubSeq(str, i + 1, Len(str)))
    ELSE 1

\* The redirect arguments of predict_file_changes, in argument order
RECURSIVE redirect_changes(_)
redirect_changes(args) ==
    IF args = <<>> THEN <<>>
    ELSE (IF Head(args) # <<>> /\ Head(args)[1] = ">"
          THEN <<FileDiff(PathBuf_from(trim(trim_start_matches_gt(Head(args)))),
                          "Modified", None, Some(s_would_be_written))>>
          ELSE <<>>)
         \o redirect_changes(Tail(args))

\* A plausible slip in predict_file_changes: every git command is taken to
\* stage the files
predict_file_changes_any_git(vfs, tool, args, order) ==
    LET has(word) == \E i \in 1..Len(args) : args[i] = word
        git == IF tool = s_git
               THEN [i \in 1..Len(order) |->
                        FileDiff(order[i], "Modified", None, Some(s_staged))]
               ELSE <<>>
        npm == IF tool = s_npm /\ has(s_install)
               THEN << FileDiff(PathBuf_from(n_package_lock), "Modified", None,
                                Some(s_would_be_updated)),
                       FileDiff(PathBuf_from(n_node_modules \o <<"/">>), "Modified", None,
                                Some(s_would_be_populated)) >>
               ELSE <<>>
        redirect == IF tool = s_echo \/ tool = s_tee \/ tool = s_cat
                    THEN redirect_changes(args)
                    ELSE <<>>
    IN git \o npm \o redirect

\* Sandbox::predict_file_changes; order is the order in which list_files
\* yields the keys of files
predict_file_changes(vfs, tool, args, order) ==
    LET has(word) == \E i \in 1..Len(args) : args[i] = word
        git == IF tool = s_git /\ (has(s_add) \/ has(s_commit))
               THEN [i \in 1..Len(order) |->
                        FileDiff(order[i], "Modified", None, Some(s_staged))]
               ELSE <<>>
        npm == IF tool = s_npm /\ has(s_install)
               THEN << FileDiff(PathBuf_from(n_package_lock), "Modified", None,
                                Some(s_would_be_updated)),
                       FileDiff(PathBuf_from(n_node_modules \o <<"/">>), "Modified", None,
                                Some(s_would_be_populated)) >>
               ELSE <<>>
        redirect == IF tool = s_echo \/ tool = s_tee \/ tool = s_cat
                    THEN redirect_changes(args)
                    ELSE <<>>
    IN git \o npm \o redirect

\* ExecutionResult
ExecutionResult(id, tool, args, m, status, stdout, stderr, exit_code, file_changes, diff_summary, permission_level, approved) ==
    [id |-> id, command |-> format_command(tool, args), tool |-> tool, args |-> args,
     mode |-> m, status |-> status, stdout |-> stdout, stderr |-> stderr,
     exit_code |-> exit_code, file_changes |-> file_changes,
     diff_summary |-> diff_summary, permission_level |-> permission_level,
     approved |-> approved]

\* What Command::output can come back with: the spawn fails, the process
\* exits with a code, or a signal ends it (ExitStatus::code is then None)
ProcessOutcomes ==
    { [kind |-> "spawn_error", code |-> None],
      [kind |-> "exited", code |-> Some(0)],
      [kind |-> "exited", code |-> Some(1)],
      [kind |-> "signaled", code |-> None] }

\* ExitStatus::success
success(outcome) == outcome.code = Some(0)

\* Sandbox::live_execution.  sb is the session (mode, execution_history), id
\* the fresh uuid, outcome what Command::output returns.
live_execution(sb, tool, args, permission_level, id, outcome) ==
    IF outcome.kind = "spawn_error"
    THEN [execution_history |-> sb.execution_history,
          ret |-> Ok(ExecutionResult(id, tool, args, sb.mode, "Failed",
                        EmptyString, Text("spawn error", 0), Some(-1),
                        <<>>, None, permission_level, TRUE))]
    ELSE LET status == IF success(outcome) THEN "Success" ELSE "Failed"
             rec == ExecutionResult(id, tool, args, sb.mode, status,
                        Text("process stdout", 0), Text("process stderr", 0),
                        outcome.code, <<>>, None, permission_level, TRUE)
         IN [execution_history |-> Append(sb.execution_history, rec), ret |-> Ok(rec)]

\* Sandbox::analyze_command: the narrative, by the number of files it lists
analyze_command(sb, tool, args, order) ==
    <<Text("[SIMULATION] Would execute",
           Len(predict_file_changes(sb.virtual_fs, tool, args, order))),
      EmptyString>>

\* Sandbox::simulate_execution
simulate_execution(sb, tool, args, permission_level, id, order) ==
    LET out == analyze_command(sb, tool, args, order) IN
    Ok(ExecutionResult(id, tool, args, sb.mode, "Simulated", out[1], out[2], None,
                       <<>>, None, permission_level, TRUE))

RECURSIVE sum_lines(_, _)
sum_lines(file_changes, field) ==
    IF file_changes = <<>> THEN 0
    ELSE (IF Head(file_changes)[field] # None
          THEN lines_count(Head(file_changes)[field][1]) ELSE 0)
         + sum_lines(Tail(file_changes), field)

\* A plausible slip in diff_execution: the two sums are stored the other way round
diff_execution_swapped(sb, tool, args, permission_level, id, order) ==
    LET file_changes == predict_file_changes(sb.virtual_fs, tool, args, order)
        diff_summary ==
            IF file_changes # <<>>
            THEN Some([added |-> sum_lines(file_changes, "old_content"),
                       deleted |-> sum_lines(file_changes, "new_content"),
                       unchanged |-> 0])
            ELSE None
    IN Ok(ExecutionResult(id, tool, args, sb.mode, "Simulated", EmptyString,
                          Text("Diff preview for file(s)", Len(file_changes)), None,
                          file_changes, diff_summary, permission_level, TRUE))

\* Sandbox::diff_execution
diff_execution(sb, tool, args, permission_level, id, order) ==
    LET file_changes == predict_file_changes(sb.virtual_fs, tool, args, order)
        diff_summary ==
            IF file_changes # <<>>
            THEN Some([added |-> sum_lines(file_changes, "new_content"),
                       deleted |-> sum_lines(file_changes, "old_content"),
                       unchanged |-> 0])
            ELSE None
    IN Ok(ExecutionResult(id, tool, args, sb.mode, "Simulated", EmptyString,
                          Text("Diff preview for file(s)", Len(file_changes)), None,
                          file_changes, diff_summary, permission_level, TRUE))

\* What one call on the session leaves behind: the two collections, the value
\* returned, the calls made to the process executor, the uuids drawn
Effect(sb, history, pending, ret, calls, drawn) ==
    [execution_history |-> history, pending_approvals |-> pending, ret |-> ret,
     calls |-> calls, drawn |-> drawn]

\* Command::new(tool).args(args).current_dir(working_dir).output()
ProcessCall(sb, tool, args) == [tool |-> tool, args |-> args, dir |-> sb.working_dir]

\* A plausible slip in execute_tool: the pending record is queued under a
\* key that is not its id
enqueue_pending_nil_key(sb, tool, args, permission_level, id) ==
    LET rec == ExecutionResult(id, tool, args, sb.mode, "PendingApproval",
                   EmptyString, EmptyString, None, <<>>, None, permission_level, FALSE)
    IN Effect(sb, sb.execution_history, MapInsert(sb.pending_approvals, 0, rec),
              Ok(rec), <<>>, 1)

\* execute_tool, the approval branch: the pending record is built and queued
enqueue_pending(sb, tool, args, permission_level, id) ==
    LET rec == ExecutionResult(id, tool, args, sb.mode, "PendingApproval",
                   EmptyString, EmptyString, None, <<>>, None, permission_level, FALSE)
    IN Effect(sb, sb.execution_history, MapInsert(sb.pending_approvals, rec.id, rec),
              Ok(rec), <<>>, 1)

\* A plausible slip in execute_tool: every mode is dispatched to the process
\* executor
dispatch_always_live(sb, tool, args, permission_level, id, outcome, order) ==
    LET live == live_execution(sb, tool, args, permission_level, id, outcome)
    IN Effect(sb, live.execution_history, sb.pending_approvals, live.ret,
              <<ProcessCall(sb, tool, args)>>, 1)

\* A plausible slip in execute_tool: the record of a preview is pushed to the
\* history like a live one
dispatch_recording_previews(sb, tool, args, permission_level, id, outcome, order) ==
    IF sb.mode = "Simulation"
    THEN LET r == simulate_execution(sb, tool, args, permission_level, id, order)
         IN Effect(sb, Append(sb.execution_history, r.value), sb.pending_approvals,
                   r, <<>>, 1)
    ELSE IF sb.mode = "Diff"
    THEN LET r == diff_execution(sb, tool, args, permission_level, id, order)
         IN Effect(sb, Append(sb.execution_history, r.value), sb.pending_approvals,
                   r, <<>>, 1)
    ELSE LET live == live_execution(sb, tool, args, permission_level, id, outcome)
         IN Effect(sb, live.execution_history, sb.pending_approvals, live.ret,
                   <<ProcessCall(sb, tool, args)>>, 1)

\* execute_tool, the match on self.mode
dispatch_by_mode(sb, tool, args, permission_level, id, outcome, order) ==
    IF sb.mode = "Simulation"
    THEN Effect(sb, sb.execution_history, sb.pending_approvals,
                simulate_execution(sb, tool, args, permission_level, id, order), <<>>, 1)
    ELSE IF sb.mode = "Diff"
    THEN Effect(sb, sb.execution_history, sb.pending_approvals,
                diff_execution(sb, tool, args, permission_level, id, order), <<>>, 1)
    ELSE LET live == live_execution(sb, tool, args, permission_level, id, outcome)
         IN Effect(sb, live.execution_history, sb.pending_approvals, live.ret,
                   <<ProcessCall(sb, tool, args)>>, 1)

\* A plausible slip in execute_tool: the override is not looked at by the
\* permission check
check_permissions_ignoring_override(sb, tool, args) ==
    check_command(sb.permissions, tool, args)

\* execute_tool, the permission check
check_permissions(sb, tool, args) ==
    IF sb.allow_all THEN Ok("Full") ELSE check_command(sb.permissions, tool, args)

\* A plausible slip in execute_tool: a preview mode is dispatched before the
\* approval requirement is looked at
execute_tool_mode_first(sb, tool, args, id, outcome, order) ==
    LET checked == check_permissions(sb, tool, args) IN
    IF ~checked.ok
    THEN Effect(sb, sb.execution_history, sb.pending_approvals, checked, <<>>, 0)
    ELSE IF sb.mode # "Live"
    THEN dispatch_by_mode(sb, tool, args, checked.value, id, outcome, order)
    ELSE IF requires_approval(sb.permissions, tool) /\ ~sb.allow_all
    THEN enqueue_pending(sb, tool, args, checked.value, id)
    ELSE dispatch_by_mode(sb, tool, args, checked.value, id, outcome, order)

\* A plausible slip in execute_tool: the override test is not negated
execute_tool_gate_inverted(sb, tool, args, id, outcome, order) ==
    LET checked == check_permissions(sb, tool, args) IN
    IF ~checked.ok
    THEN Effect(sb, sb.execution_history, sb.pending_approvals, checked, <<>>, 0)
    ELSE IF requires_approval(sb.permissions, tool) /\ sb.allow_all
    THEN enqueue_pending(sb, tool, args, checked.value, id)
    ELSE dispatch_by_mode(sb, tool, args, checked.value, id, outcome, order)

\* A plausible slip in execute_tool: the approval requirement is looked at
\* before the permission check
execute_tool_gate_before_check(sb, tool, args, id, outcome, order) ==
    LET checked == check_permissions(sb, tool, args) IN
    IF requires_approval(sb.permissions, tool) /\ ~sb.allow_all
    THEN enqueue_pending(sb, tool, args,
                         IF checked.ok THEN checked.value ELSE "Denied", id)
    ELSE IF ~checked.ok
    THEN Effect(sb, sb.execution_history, sb.pending_approvals, checked, <<>>, 0)
    ELSE dispatch_by_mode(sb, tool, args, checked.value, id, outcome, order)

\* A plausible slip in execute_tool: a permission failure is turned into a
\* record with status Blocked, kept in the history
execute_tool_blocked_record(sb, tool, args, id, outcome, order) ==
    LET checked == check_permissions(sb, tool, args) IN
    IF ~checked.ok
    THEN LET rec == ExecutionResult(id, tool, args, sb.mode, "Blocked", EmptyString,
                        Text("permission denied", 0), None, <<>>, None, "Denied", FALSE)
         IN Effect(sb, Append(sb.execution_history, rec), sb.pending_approvals,
                   Ok(rec), <<>>, 1)
    ELSE IF requires_approval(sb.permissions, tool) /\ ~sb.allow_all
    THEN enqueue_pending(sb, tool, args, checked.value, id)
    ELSE dispatch_by_mode(sb, tool, args, checked.value, id, outcome, order)

\* Sandbox::execute_tool
execute_tool(sb, tool, args, id, outcome, order) ==
    LET checked == check_permissions(sb, tool, args) IN
    IF ~checked.ok
    THEN Effect(sb, sb.execution_history, sb.pending_approvals, checked, <<>>, 0)
    ELSE IF requires_approval(sb.permissions, tool) /\ ~sb.allow_all
    THEN enqueue_pending(sb, tool, args, checked.value, id)
    ELSE dispatch_by_mode(sb, tool, args, checked.value, id, outcome, order)

\* A plausible slip in execute: a command that does not tokenize is handed to
\* execute_tool as a tool with an empty name
execute_unparsed(sb, command, id, outcome, order) ==
    LET parts == split(command) IN
    IF ~parts.ok \/ parts.value = <<>>
    THEN execute_tool(sb, <<>>, <<>>, id, outcome, order)
    ELSE execute_tool(sb, parts.value[1], Tail(parts.value), id, outcome, order)

\* Sandbox::execute
execute(sb, command, id, outcome, order) ==
    LET parts == split(command) IN
    IF ~parts.ok
    THEN Effect(sb, sb.execution_history, sb.pending_approvals,
                Err("InvalidCommand"), <<>>, 0)
    ELSE IF parts.value = <<>>
    THEN Effect(sb, sb.execution_history, sb.pending_approvals,
                Err("InvalidCommand"), <<>>, 0)
    ELSE execute_tool(sb, parts.value[1], Tail(parts.value), id, outcome, order)

\* A plausible slip in approve: an unknown id is reported as CommandNotFound
approve_command_not_found(sb, execution_id, id, outcome) ==
    IF execution_id \notin DOMAIN sb.pending_approvals
    THEN Effect(sb, sb.execution_history, sb.pending_approvals,
                Err("CommandNotFound"), <<>>, 0)
    ELSE LET queued == sb.pending_approvals[execution_id]
             live == live_execution(sb, queued.tool, queued.args,
                                    queued.permission_level, id, outcome)
         IN Effect(sb, live.execution_history, MapRemove(sb.pending_approvals, execution_id),
                   live.ret, <<ProcessCall(sb, queued.tool, queued.args)>>, 1)

\* A plausible slip in approve: the entry is looked up and left in the queue
approve_keeping_entry(sb, execution_id, id, outcome) ==
    IF execution_id \notin DOMAIN sb.pending_approvals
    THEN Effect(sb, sb.execution_history, sb.pending_approvals,
                Err("InvalidCommand"), <<>>, 0)
    ELSE LET queued == sb.pending_approvals[execution_id]
             live == live_execution(sb, queued.tool, queued.args,
                                    queued.permission_level, id, outcome)
         IN Effect(sb, live.execution_history, sb.pending_approvals,
                   live.ret, <<ProcessCall(sb, queued.tool, queued.args)>>, 1)

\* A plausible slip in approve: the live record takes over the id of the
\* pending one
approve_reusing_id(sb, execution_id, id, outcome) ==
    IF execution_id \notin DOMAIN sb.pending_approvals
    THEN Effect(sb, sb.execution_history, sb.pending_approvals,
                Err("InvalidCommand"), <<>>, 0)
    ELSE LET queued == sb.pending_approvals[execution_id]
             live == live_execution(sb, queued.tool, queued.args,
                                    queued.permission_level, execution_id, outcome)
         IN Effect(sb, live.execution_history, MapRemove(sb.pending_approvals, execution_id),
                   live.ret, <<ProcessCall(sb, queued.tool, queued.args)>>, 0)

\* A plausible slip in approve: a command that failed stays queued, to be
\* approved again
approve_requeue_failed(sb, execution_id, id, outcome) ==
    IF execution_id \notin DOMAIN sb.pending_approvals
    THEN Effect(sb, sb.execution_history, sb.pending_approvals,
                Err("InvalidCommand"), <<>>, 0)
    ELSE LET queued == sb.pending_approvals[execution_id]
             live == live_execution(sb, queued.tool, queued.args,
                                    queued.permission_level, id, outcome)
         IN Effect(sb, live.execution_history,
                   IF live.ret.value.status = "Failed" THEN sb.pending_approvals
                   ELSE MapRemove(sb.pending_approvals, execution_id),
                   live.ret, <<ProcessCall(sb, queued.tool, queued.args)>>, 1)

\* A plausible slip in approve: the queued command goes through the permission
\* check again, and runs with the level the gate gives it now
approve_rechecking(sb, execution_id, id, outcome) ==
    IF execution_id \notin DOMAIN sb.pending_approvals
    THEN Effect(sb, sb.execution_history, sb.pending_approvals,
                Err("InvalidCommand"), <<>>, 0)
    ELSE LET queued == sb.pending_approvals[execution_id]
             checked == check_permissions(sb, queued.tool, queued.args)
         IN IF ~checked.ok
            THEN Effect(sb, sb.execution_history,
                        MapRemove(sb.pending_approvals, execution_id), checked, <<>>, 0)
            ELSE LET live == live_execution(sb, queued.tool, queued.args,
                                            checked.value, id, outcome)
                 IN Effect(sb, live.execution_history,
                           MapRemove(sb.pending_approvals, execution_id),
                           live.ret, <<ProcessCall(sb, queued.tool, queued.args)>>, 1)

\* Sandbox::approve
approve(sb, execution_id, id, outcome) ==
    IF execution_id \notin DOMAIN sb.pending_approvals
    THEN Effect(sb, sb.execution_history, sb.pending_approvals,
                Err("InvalidCommand"), <<>>, 0)
    ELSE LET queued == sb.pending_approvals[execution_id]
             live == live_execution(sb, queued.tool, queued.args,
                                    queued.permission_level, id, outcome)
         IN Effect(sb, live.execution_history, MapRemove(sb.pending_approvals, execution_id),
                   live.ret, <<ProcessCall(sb, queued.tool, queued.args)>>, 1)

\* Sandbox::new; cwd is std::env::current_dir()
Sandbox_new(cwd) ==
    [virtual_fs |-> VirtualFilesystem_new, permissions |-> default_permissions,
     mode |-> "Live", execution_history |-> <<>>, pending_approvals |-> <<>>,
     working_dir |-> cwd, allow_all |-> FALSE]

\* Sandbox::with_working_dir
with_working_dir(cwd, path, clock) ==
    LET sandbox == [Sandbox_new(cwd) EXCEPT !.working_dir = path] IN
    IF path_exists(path)
    THEN LET mounted == mount(sandbox.virtual_fs, path, clock) IN
         IF mounted.ret.ok THEN Ok([sandbox EXCEPT !.virtual_fs = mounted.vfs])
         ELSE mounted.ret
    ELSE Ok(sandbox)

\* ------------------------------------------------------------------------
\* The session
\* ------------------------------------------------------------------------
MaxUuids == 2

\* The session as the methods see it (self)
Self ==
    [virtual_fs |-> virtual_fs, permissions |-> permissions, mode |-> mode,
     execution_history |-> execution_history, pending_approvals |-> pending_approvals,
     working_dir |-> working_dir, allow_all |-> allow_all]

cmd_git_status == s_git \o <<" ">> \o s_status
cmd_git_add == s_git \o <<" ">> \o s_add
cmd_git == s_git
cmd_rm_rf == s_rm \o <<" ">> \o s_rf \o <<" ", "/">> \o n_tmp \o <<"/">> \o s_x
cmd_sudo_ls == s_sudo \o <<" ">> \o s_ls
cmd_npm_install == s_npm \o <<" ">> \o s_install
cmd_npm == s_npm
cmd_ls == s_ls
cmd_echo_redirect == s_echo \o <<" ", ">">> \o n_f
cmd_empty == <<>>
cmd_unclosed == s_git \o <<" ", "'">> \o s_x
cmd_blank == <<" ", "\t">>
cmd_unclosed_dq == s_git \o <<" ", "\"">> \o s_status

Commands ==
    {cmd_git_status, cmd_git, cmd_sudo_ls, cmd_npm_install, cmd_ls, cmd_empty,
     cmd_unclosed, cmd_blank, cmd_unclosed_dq}

\* Ids a caller can pass to approve: every uuid that can have been drawn, and
\* 0, which never is
ApproveIds == 0..MaxUuids

Execute(command, outcome, order) ==
    \E e \in {execute(Self, command, uuids + 1, outcome, order)} :
    /\ uuids + e.drawn <= MaxUuids
    /\ execution_history' = e.execution_history
    /\ pending_approvals' = e.pending_approvals
    /\ uuids' = uuids + e.drawn
    /\ spawned' = [i \in 1..Len(e.calls) |->
                      [call |-> e.calls[i], by |-> "execute", approved |-> None]]
    /\ issued' = IF e.ret.ok /\ e.ret.value.status = "PendingApproval"
                 THEN MapInsert(issued, e.ret.value.id,
                                [tool |-> e.ret.value.tool, args |-> e.ret.value.args])
                 ELSE issued
    /\ result' = [op |-> "execute", command |-> command, ret |-> e.ret]
    /\ UNCHANGED <<mode, allow_all, permissions, virtual_fs, working_dir, baseline>>

Approve(execution_id, outcome) ==
    \E e \in {approve(Self, execution_id, uuids + 1, outcome)} :
    /\ uuids + e.drawn <= MaxUuids
    /\ execution_history' = e.execution_history
    /\ pending_approvals' = e.pending_approvals
    /\ uuids' = uuids + e.drawn
    /\ spawned' = [i \in 1..Len(e.calls) |->
                      [call |-> e.calls[i], by |-> "approve",
                       approved |-> Some(execution_id)]]
    /\ issued' = IF e.ret.ok /\ execution_id \in DOMAIN issued
                 THEN MapRemove(issued, execution_id) ELSE issued
    /\ result' = [op |-> "approve", execution_id |-> execution_id, ret |-> e.ret]
    /\ UNCHANGED <<mode, allow_all, permissions, virtual_fs, working_dir, baseline>>

\* Sandbox::set_mode
SetMode(m) ==
    /\ mode' = m
    /\ result' = [op |-> "set_mode"]
    /\ spawned' = <<>>
    /\ UNCHANGED <<allow_all, permissions, execution_history, pending_approvals,
                   virtual_fs, working_dir, uuids, issued, baseline>>

\* Sandbox::allow_all
AllowAll ==
    /\ allow_all' = TRUE
    /\ result' = [op |-> "allow_all"]
    /\ spawned' = <<>>
    /\ UNCHANGED <<mode, permissions, execution_history, pending_approvals,
                   virtual_fs, working_dir, uuids, issued, baseline>>

\* Sandbox::reset, with every pending entry kept
Sandbox_reset_keeping_pending(sb) ==
    [sb EXCEPT !.virtual_fs = reset(sb.virtual_fs), !.execution_history = <<>>]

\* Sandbox::reset
Sandbox_reset(sb) ==
    [sb EXCEPT !.virtual_fs = reset(sb.virtual_fs),
               !.execution_history = <<>>,
               !.pending_approvals = <<>>]

\* Sandbox::status (the session's own id left out)
status(sb) ==
    [mode |-> sb.mode,
     file_count |-> Cardinality(list_files(sb.virtual_fs)),
     execution_count |-> Len(sb.execution_history),
     pending_approval_count |-> Cardinality(DOMAIN sb.pending_approvals),
     working_dir |-> sb.working_dir]

\* Sandbox::reset.  cleared: the ids pending_approvals.clear() dropped
Reset ==
    \E sb \in {Sandbox_reset(Self)} :
    /\ virtual_fs' = sb.virtual_fs
    /\ execution_history' = sb.execution_history
    /\ pending_approvals' = sb.pending_approvals
    /\ issued' = <<>>
    /\ result' = [op |-> "reset", cleared |-> DOMAIN pending_approvals]
    /\ spawned' = <<>>
    /\ UNCHANGED <<mode, allow_all, permissions, working_dir, uuids, baseline>>

\* The directories a session is started in, and the clock readings of its mount
InitRoots == {d_work, d_locked}
InitClock == <<1, 1>>

\* Sandbox::new, or Sandbox::with_working_dir when it returns a sandbox
Init ==
    /\ \E sandbox \in {Sandbox_new(p_root)}
            \cup {with_working_dir(p_root, path, InitClock).value :
                    path \in {p \in InitRoots : with_working_dir(p_root, p, InitClock).ok}} :
        /\ virtual_fs = sandbox.virtual_fs
        /\ permissions = sandbox.permissions
        /\ mode = sandbox.mode
        /\ execution_history = sandbox.execution_history
        /\ pending_approvals = sandbox.pending_approvals
        /\ working_dir = sandbox.working_dir
        /\ allow_all = sandbox.allow_all
        /\ baseline = IF sandbox.virtual_fs.mount_points # <<>>
                      THEN Some(sandbox.virtual_fs.files) ELSE None
    /\ uuids = 0
    /\ spawned = <<>>
    /\ issued = <<>>
    /\ result = [op |-> "new"]

Next ==
    \/ \E command \in Commands, outcome \in ProcessOutcomes,
          order \in KeyOrders(list_files(virtual_fs)) : Execute(command, outcome, order)
    \/ \E execution_id \in ApproveIds, outcome \in ProcessOutcomes :
            Approve(execution_id, outcome)
    \/ \E m \in ExecutionMode : SetMode(m)
    \/ AllowAll
    \/ Reset

Spec == Init /\ [][Next]_vars

\* ------------------------------------------------------------------------
\* A session whose registry is changed while commands are queued:
\* Sandbox::permissions is a public field, so the caller can call
\* register_tool on it between submit and approve
\* ------------------------------------------------------------------------
\* git as default_permissions registers it
git_default == default_permissions.permissions[s_git]

\* git registered again: with level Denied, with an allowed_args list that
\* "status" is not in, without requires_approval
Reregistrations ==
    { with_level(ToolPermission_new(s_git), "Denied"),
      set_requires_approval(allow_arg(with_level(ToolPermission_new(s_git), "Full"), s_diff)),
      [git_default EXCEPT !.requires_approval = FALSE] }

RegisteredCommands == {cmd_git_status, cmd_git, cmd_ls}

\* sandbox.permissions.register_tool(permission)
RegisterTool(permission) ==
    /\ permissions' = register_tool(permissions, permission)
    /\ result' = [op |-> "register_tool", tool |-> permission.name]
    /\ spawned' = <<>>
    /\ UNCHANGED <<mode, allow_all, execution_history, pending_approvals,
                   virtual_fs, working_dir, uuids, issued, baseline>>

NextReg ==
    \/ \E command \in RegisteredCommands, outcome \in ProcessOutcomes,
          order \in KeyOrders(list_files(virtual_fs)) : Execute(command, outcome, order)
    \/ \E execution_id \in ApproveIds, outcome \in ProcessOutcomes :
            Approve(execution_id, outcome)
    \/ \E m \in ExecutionMode : SetMode(m)
    \/ \E permission \in Reregistrations : RegisterTool(permission)

SpecReg == Init /\ [][NextReg]_vars

\* ------------------------------------------------------------------------
\* A session whose shadow is written to and deleted from between commands
\* (Sandbox::virtual_fs is a public field), for the side-effect prediction
\* ------------------------------------------------------------------------
cmd_git_commit == s_git \o <<" ">> \o s_commit
cmd_npm_x_install == s_npm \o <<" ">> \o s_x \o <<" ">> \o s_install
cmd_tee_redirects == s_tee \o <<" ", ">">> \o n_f \o <<" ">> \o s_x \o <<" ", ">">> \o n_y
cmd_cat == s_cat \o <<" ">> \o s_x

PredictCommands ==
    {cmd_git_add, cmd_git_commit, cmd_git_status, cmd_npm_x_install,
     cmd_npm, cmd_tee_redirects, cmd_cat, cmd_ls}
PreviewModes == {"Simulation", "Diff"}

NextPredict ==
    \/ \E command \in PredictCommands, outcome \in {[kind |-> "exited", code |-> Some(0)]},
          order \in KeyOrders(list_files(virtual_fs)) : Execute(command, outcome, order)
    \/ \E m \in PreviewModes : SetMode(m)
    \/ AllowAll
    \/ Write(f_a, c_one, 1)
    \/ \E path \in VfsPaths : Delete(path)

SpecPredict == Init /\ [][NextPredict]_vars

\* ========================================================================
\* Properties
\* ========================================================================
Registered(tool) == tool \in DOMAIN permissions.permissions

\* s occurs in arg as a contiguous run of characters (or is all of arg)
OccursIn(s, arg) ==
    \E lo \in 0..Len(arg) : \E hi \in lo..Len(arg) : SubSeq(arg, lo + 1, hi) = s

\* path is prefixed by one of the entries
PrefixedByAny(path, entries) ==
    \E i \in 1..Len(entries) : \E k \in 0..Len(path) : SubSeq(path, 1, k) = entries[i]

\* C7: for a tool that is not registered, while allow_unknown is not set,
\* check_tool and check_command fail with PermissionDenied for every
\* argument list, the empty one included.
C7_UnknownToolDenied ==
    (/\ result.op \in {"check_tool", "check_command"}
     /\ ~Registered(result.tool)
     /\ ~permissions.allow_unknown)
    => result.ret = Err("PermissionDenied")

C7_Witness ==
    /\ result.op = "check_command"
    /\ ~Registered(result.tool)
    /\ ~permissions.allow_unknown
    /\ result.args = <<>>
    /\ result.ret = Err("PermissionDenied")

\* C8: for a registered tool with a non-empty allowed_args, check_command
\* succeeds iff some submitted argument equals or contains some allowed
\* entry (so the empty argument list is rejected); with an empty
\* allowed_args every argument list succeeds.
C8_ArgsAllowList ==
    (result.op = "check_command" /\ Registered(result.tool)) =>
        LET p == permissions.permissions[result.tool] IN
        /\ p.allowed_args # <<>> =>
             (result.ret.ok <=>
                \E i \in 1..Len(result.args) : \E j \in 1..Len(p.allowed_args) :
                    OccursIn(p.allowed_args[j], result.args[i]))
        /\ p.allowed_args # <<>> /\ result.args = <<>> => ~result.ret.ok
        /\ p.allowed_args = <<>> => result.ret.ok

C8_Witness ==
    /\ result.op = "check_command"
    /\ Registered(result.tool)
    /\ permissions.permissions[result.tool].allowed_args = <<s_r>>
    /\ result.args = <<s_x, s_rf>>
    /\ result.ret.ok

\* C9 as claimed: for every registered tool, check_path rejects a path
\* prefixed by a denied_paths entry and otherwise accepts exactly when
\* allowed_paths is empty or prefixes the path.
C9_AsClaimed ==
    (result.op = "check_path" /\ Registered(result.tool)) =>
        LET p == permissions.permissions[result.tool] IN
        result.ret = Ok(IF PrefixedByAny(result.path, p.denied_paths) THEN FALSE
                        ELSE (p.allowed_paths = <<>>
                              \/ PrefixedByAny(result.path, p.allowed_paths)))

\* C9 amended: the claim holds for a registered tool whose level is not
\* Denied; a registered tool of level Denied has every path rejected.
C9_DeniedPathsOverride ==
    (result.op = "check_path" /\ Registered(result.tool)) =>
        LET p == permissions.permissions[result.tool] IN
        IF p.level = "Denied" THEN result.ret = Ok(FALSE)
        ELSE result.ret = Ok(IF PrefixedByAny(result.path, p.denied_paths) THEN FALSE
                             ELSE (p.allowed_paths = <<>>
                                   \/ PrefixedByAny(result.path, p.allowed_paths)))

C9_Witness ==
    /\ result.op = "check_path"
    /\ Registered(result.tool)
    /\ permissions.permissions[result.tool].level # "Denied"
    /\ PrefixedByAny(result.path, permissions.permissions[result.tool].denied_paths)
    /\ PrefixedByAny(result.path, permissions.permissions[result.tool].allowed_paths)
    /\ result.ret = Ok(FALSE)


\* C10 as claimed: no path is at once in files (live) and in deleted_files
\* (tombstoned).
C10_Disjoint ==
    (DOMAIN virtual_fs.files) \cap (DOMAIN virtual_fs.deleted_files) = {}


\* ------------------------------------------------------------------------
\* The session's claims.  A step whose result' is that of execute (approve)
\* and that changes some variable is a step of Execute (Approve): no other
\* operation leaves such a result.
\* ------------------------------------------------------------------------
\* The tool and the arguments a command string names, when it tokenizes to
\* at least one word
Tokenizes(command) == split(command).ok /\ split(command).value # <<>>
ToolOf(command) == split(command).value[1]
ArgsOf(command) == Tail(split(command).value)

\* The registry asks for approval of this tool
ApprovalGated(tool) == Registered(tool) /\ permissions.permissions[tool].requires_approval

\* Permission evaluation rejects (tool, args): the tool is unregistered and
\* unknown tools are disallowed, or no argument matches a non-empty allowed_args
Rejected(tool, args) ==
    \/ ~Registered(tool) /\ ~permissions.allow_unknown
    \/ /\ Registered(tool)
       /\ permissions.permissions[tool].allowed_args # <<>>
       /\ ~\E i \in 1..Len(args) :
              \E j \in 1..Len(permissions.permissions[tool].allowed_args) :
                  OccursIn(permissions.permissions[tool].allowed_args[j], args[i])

\* C1: with allow_all off, in every mode, submitting a command whose tool is
\* registered with requires_approval and whose arguments pass the permission
\* check returns a PendingApproval record with approved = false, queues that
\* record under its id, appends nothing to the history and runs no process:
\* the mode is not consulted.
C1_ApprovalBeforeMode ==
    [][\A command \in Commands :
        (/\ result'.op = "execute" /\ result'.command = command
         /\ ~allow_all
         /\ Tokenizes(command)
         /\ ApprovalGated(ToolOf(command))
         /\ ~Rejected(ToolOf(command), ArgsOf(command)))
        => /\ result'.ret.ok
           /\ result'.ret.value.status = "PendingApproval"
           /\ result'.ret.value.approved = FALSE
           /\ result'.ret.value.tool = ToolOf(command)
           /\ result'.ret.value.args = ArgsOf(command)
           /\ result'.ret.value.id \notin DOMAIN pending_approvals
           /\ pending_approvals' =
                MapInsert(pending_approvals, result'.ret.value.id, result'.ret.value)
           /\ execution_history' = execution_history
           /\ spawned' = <<>>]_vars

C1_Witness ==
    /\ result.op = "execute"
    /\ result.command = cmd_git_status
    /\ ~allow_all
    /\ mode = "Diff"
    /\ result.ret.ok
    /\ result.ret.value.status = "PendingApproval"
    /\ result.ret.value.id \in DOMAIN pending_approvals
    /\ execution_history # <<>>

\* C2: while allow_all is off and the registry is the one the session was
\* built with, a process is run for a tool with requires_approval only by
\* approve(id), for an id that a submit of the same tool and arguments
\* returned and that has not been approved or reset since.
C2_GatedRunsOnlyOnApprove ==
    [][(~allow_all' /\ permissions' = default_permissions) =>
        \A i \in 1..Len(spawned') :
            ApprovalGated(spawned'[i].call.tool) =>
                /\ spawned'[i].by = "approve"
                /\ spawned'[i].approved # None
                /\ spawned'[i].approved[1] \in DOMAIN issued
                /\ issued[spawned'[i].approved[1]] =
                      [tool |-> spawned'[i].call.tool, args |-> spawned'[i].call.args]
                /\ spawned'[i].approved[1] \notin DOMAIN issued']_vars

C2_Witness ==
    /\ ~allow_all
    /\ Len(spawned) = 1
    /\ ApprovalGated(spawned[1].call.tool)
    /\ spawned[1].by = "approve"
    /\ result.op = "approve"
    /\ result.ret.ok

\* C3 as claimed: with allow_all off, submit never passes to the process
\* executor a command whose tool is registered with level Denied.
C3_DeniedNeverRuns ==
    ~allow_all =>
        \A i \in 1..Len(spawned) :
            spawned[i].by = "execute" =>
                ~(/\ Registered(spawned[i].call.tool)
                  /\ permissions.permissions[spawned[i].call.tool].level = "Denied")

\* What C4 says of every approve of a queued id, but for the exit code: the
\* id leaves the queue, the stored tool, arguments and permission level are
\* run by the process executor whatever the mode is, and the record returned
\* is Success or Failed with approved = true.
ApproveRunsQueued(id) ==
    /\ pending_approvals' = MapRemove(pending_approvals, id)
    /\ id \notin DOMAIN pending_approvals'
    /\ Len(spawned') = 1
    /\ spawned'[1].call.tool = pending_approvals[id].tool
    /\ spawned'[1].call.args = pending_approvals[id].args
    /\ result'.ret.ok
    /\ result'.ret.value.tool = pending_approvals[id].tool
    /\ result'.ret.value.args = pending_approvals[id].args
    /\ result'.ret.value.permission_level = pending_approvals[id].permission_level
    /\ result'.ret.value.status \in {"Success", "Failed"}
    /\ result'.ret.value.approved = TRUE

\* C4 as claimed: the record approve returns has a concrete exit code (the
\* process's, or -1).
C4_AsClaimed ==
    [][\A id \in ApproveIds :
        (/\ result'.op = "approve" /\ result'.execution_id = id
         /\ id \in DOMAIN pending_approvals)
        => /\ ApproveRunsQueued(id)
           /\ result'.ret.value.exit_code # None]_vars

\* C4 amended: the exit code is 0 for Success; for Failed it is the process's
\* non-zero code, -1 when the spawn failed, or absent when a signal ended the
\* process.
C4_ApproveRunsLive ==
    [][\A id \in ApproveIds :
        (/\ result'.op = "approve" /\ result'.execution_id = id
         /\ id \in DOMAIN pending_approvals)
        => /\ ApproveRunsQueued(id)
           /\ result'.ret.value.status = "Success" =>
                result'.ret.value.exit_code = Some(0)
           /\ result'.ret.value.status = "Failed" =>
                (\/ result'.ret.value.exit_code = None
                 \/ result'.ret.value.exit_code[1] # 0)]_vars

C4_Witness ==
    /\ result.op = "approve"
    /\ result.ret.ok
    /\ mode = "Simulation"
    /\ result.ret.value.status = "Success"
    /\ result.ret.value.approved = TRUE
    /\ result.execution_id \notin DOMAIN pending_approvals
    /\ Len(spawned) = 1

\* C5: approve of an id that is not queued fails with InvalidCommand, runs no
\* process, and leaves the pending queue, the history and the shadow as
\* they were.
C5_ApproveUnknownFails ==
    [][\A id \in ApproveIds :
        (/\ result'.op = "approve" /\ result'.execution_id = id
         /\ id \notin DOMAIN pending_approvals)
        => /\ result'.ret = Err("InvalidCommand")
           /\ spawned' = <<>>
           /\ pending_approvals' = pending_approvals
           /\ execution_history' = execution_history
           /\ virtual_fs' = virtual_fs]_vars

C5_Witness ==
    /\ result.op = "approve"
    /\ result.ret = Err("InvalidCommand")
    /\ result.execution_id \notin DOMAIN pending_approvals
    /\ pending_approvals # <<>>
    /\ virtual_fs.files # <<>>

\* C6: with allow_all off, when permission evaluation rejects the command,
\* submit returns PermissionDenied, draws no record id, leaves the pending
\* queue and the history as they were and runs no process, in every mode
\* and also for a tool with requires_approval.
C6_DeniedLeavesNoRecord ==
    [][\A command \in Commands :
        (/\ result'.op = "execute" /\ result'.command = command
         /\ ~allow_all
         /\ Tokenizes(command)
         /\ Rejected(ToolOf(command), ArgsOf(command)))
        => /\ result'.ret = Err("PermissionDenied")
           /\ pending_approvals' = pending_approvals
           /\ execution_history' = execution_history
           /\ uuids' = uuids
           /\ spawned' = <<>>]_vars

C6_Witness ==
    /\ result.op = "execute"
    /\ result.command = cmd_git
    /\ ApprovalGated(ToolOf(cmd_git))
    /\ ~allow_all
    /\ mode = "Simulation"
    /\ result.ret = Err("PermissionDenied")
    /\ pending_approvals # <<>>


\* ------------------------------------------------------------------------
\* The shadow's claims
\* ------------------------------------------------------------------------
Live == DOMAIN virtual_fs.files
Tombstoned == DOMAIN virtual_fs.deleted_files

\* C11: delete(p) of a live path tombstones the file as it was, and reset()
\* puts every tombstoned path back in the live mapping with the content and
\* the hash of its tombstone, so delete(p); reset() restores p as it was
\* before the deletion.  commit() drops every tombstone and leaves the live
\* mapping alone, and reset() brings back no path that is in neither
\* mapping, so delete(p); commit(); reset() leaves p in neither mapping.
C11_DeleteResetCommit ==
    [][\A p \in VfsPaths :
        /\ (result'.op = "delete" /\ result'.path = p /\ p \in Live)
            => /\ result'.ret.ok
               /\ p \notin DOMAIN virtual_fs'.files
               /\ p \in DOMAIN virtual_fs'.deleted_files
               /\ virtual_fs'.deleted_files[p] = virtual_fs.files[p]
        /\ (result'.op = "reset" /\ p \in Tombstoned)
            => /\ p \in DOMAIN virtual_fs'.files
               /\ p \notin DOMAIN virtual_fs'.deleted_files
               /\ virtual_fs'.files[p].content = virtual_fs.deleted_files[p].content
               /\ virtual_fs'.files[p].hash = virtual_fs.deleted_files[p].hash
        /\ (result'.op = "commit" /\ p \in Tombstoned /\ p \notin Live)
            => /\ p \notin DOMAIN virtual_fs'.files
               /\ p \notin DOMAIN virtual_fs'.deleted_files
        /\ (result'.op = "reset" /\ p \notin Tombstoned /\ p \notin Live)
            => /\ p \notin DOMAIN virtual_fs'.files
               /\ p \notin DOMAIN virtual_fs'.deleted_files]_vars

C11_Witness ==
    /\ result.op = "reset"
    /\ f_a \in result.restored
    /\ f_a \in Live
    /\ f_a \notin Tombstoned
    /\ virtual_fs.files[f_a].content = c_two
    /\ f_run \notin Live

\* C12: every VirtualFile in the live or the tombstoned mapping has hash equal
\* to the SHA-256 of its content (so write(p, content) leaves hash(p) =
\* SHA256(content)), and update_content on any of them yields the new content
\* with its hash.
C12_HashOfContent ==
    /\ \A p \in Live : virtual_fs.files[p].hash = compute_hash(virtual_fs.files[p].content)
    /\ \A p \in Tombstoned :
          virtual_fs.deleted_files[p].hash = compute_hash(virtual_fs.deleted_files[p].content)
    /\ \A p \in Live : \A content \in VfsContents, now \in Times :
          /\ update_content(virtual_fs.files[p], content, now).content = content
          /\ update_content(virtual_fs.files[p], content, now).hash = compute_hash(content)
          /\ update_content(virtual_fs.files[p], content, now).modified_at = now

C12_Witness ==
    /\ result.op = "write"
    /\ result.path = f_a
    /\ virtual_fs.files[f_a].content = c_two
    /\ virtual_fs.files[f_a].hash = compute_hash(c_two)
    /\ f_a \in Tombstoned
    /\ virtual_fs.deleted_files[f_a].content = c_one

\* C13 as claimed: once a directory has been mounted, reset() leaves the live
\* mapping with exactly the paths and contents it had right after the mount,
\* and the tombstoned mapping empty.
C13_ResetRestoresBaseline ==
    (result.op = "reset" /\ baseline # None) =>
        /\ Live = DOMAIN baseline[1]
        /\ \A p \in Live : virtual_fs.files[p].content = baseline[1][p].content
        /\ Tombstoned = {}


\* ------------------------------------------------------------------------
\* The session's claims on reset, records and previews
\* ------------------------------------------------------------------------
\* C14: reset() empties the history and the pending queue, status then
\* reports 0 executions and 0 pending approvals, approve of any id that was
\* pending before the reset fails with InvalidCommand and runs nothing, and
\* an id that has left the queue never enters it again.
C14_ResetRetiresPending ==
    [][/\ (result'.op = "reset") =>
            /\ execution_history' = <<>>
            /\ pending_approvals' = <<>>
            /\ status(Self').execution_count = 0
            /\ status(Self').pending_approval_count = 0
            /\ \A id \in DOMAIN pending_approvals : \A outcome \in ProcessOutcomes :
                  /\ approve(Self', id, uuids' + 1, outcome).ret = Err("InvalidCommand")
                  /\ approve(Self', id, uuids' + 1, outcome).calls = <<>>
       /\ \A id \in 1..uuids :
            id \notin DOMAIN pending_approvals => id \notin DOMAIN pending_approvals'
      ]_vars

C14_Witness ==
    /\ result.op = "reset"
    /\ result.cleared # {}
    /\ pending_approvals = <<>>
    /\ execution_history = <<>>
    /\ uuids = MaxUuids

\* C15 as claimed: a Live dispatch never returns an error, and when the
\* spawn failed it returns a record with status Failed, exit code -1 and the
\* error text as stderr, and appends that record to the history.
C15_SpawnFailureInHistory ==
    [][(result'.op \in {"execute", "approve"} /\ spawned' # <<>>) =>
        /\ result'.ret.ok
        /\ result'.ret.value.stderr = Text("spawn error", 0) =>
            /\ result'.ret.value.status = "Failed"
            /\ result'.ret.value.exit_code = Some(-1)
            /\ execution_history' = Append(execution_history, result'.ret.value)
      ]_vars

\* C16: no record with status Blocked is returned by submit or approve, held
\* in the pending queue or held in the history.
C16_NeverBlocked ==
    /\ (result.op \in {"execute", "approve"} /\ result.ret.ok) =>
            result.ret.value.status # "Blocked"
    /\ \A id \in DOMAIN pending_approvals : pending_approvals[id].status # "Blocked"
    /\ \A i \in 1..Len(execution_history) : execution_history[i].status # "Blocked"

C16_Witness ==
    /\ result.op = "execute"
    /\ result.ret = Err("PermissionDenied")
    /\ pending_approvals # <<>>
    /\ execution_history # <<>>

\* C17: submit of a command string with no words (empty or whitespace only)
\* or with an unterminated single or double quote fails with InvalidCommand,
\* whatever the permissions would say, and leaves the pending queue and the
\* history as they were, runs no process and draws no id.
C17_MalformedCommand ==
    [][\A command \in Commands :
        (/\ result'.op = "execute" /\ result'.command = command
         /\ ~Tokenizes(command))
        => /\ result'.ret = Err("InvalidCommand")
           /\ pending_approvals' = pending_approvals
           /\ execution_history' = execution_history
           /\ uuids' = uuids
           /\ spawned' = <<>>]_vars

C17_Witness ==
    /\ result.op = "execute"
    /\ result.command = cmd_unclosed_dq
    /\ result.ret = Err("InvalidCommand")
    /\ allow_all
    /\ pending_approvals # <<>>

\* The command reaches the match on the mode: it tokenizes, and either
\* allow_all is on or the permission check passes and no approval is required
Dispatched(command) ==
    /\ Tokenizes(command)
    /\ \/ allow_all
       \/ /\ ~Rejected(ToolOf(command), ArgsOf(command))
          /\ ~ApprovalGated(ToolOf(command))

\* C18: a command dispatched in Simulation or Diff mode runs no process and
\* yields a record with status Simulated and no exit code; the shadow, the
\* permission registry and the pending queue are left as they were.
C18_PreviewRunsNothing ==
    [][\A command \in Commands :
        (/\ result'.op = "execute" /\ result'.command = command
         /\ mode \in {"Simulation", "Diff"}
         /\ Dispatched(command))
        => /\ result'.ret.ok
           /\ result'.ret.value.status = "Simulated"
           /\ result'.ret.value.exit_code = None
           /\ spawned' = <<>>
           /\ virtual_fs' = virtual_fs
           /\ permissions' = permissions
           /\ pending_approvals' = pending_approvals]_vars

C18_Witness ==
    /\ result.op = "execute"
    /\ result.command = cmd_npm_install
    /\ mode = "Diff"
    /\ ~allow_all
    /\ result.ret.ok
    /\ result.ret.value.status = "Simulated"
    /\ virtual_fs.files # <<>>
    /\ pending_approvals # <<>>

\* The session holds a record with this id, in the history or in the queue
Held(id) ==
    \/ id \in DOMAIN pending_approvals
    \/ \E i \in 1..Len(execution_history) : execution_history[i].id = id

\* C19 as claimed: after a submit has returned a record with status
\* Simulated, the session holds a record with that id.
C19_PreviewRecordRetained ==
    (result.op = "execute" /\ result.ret.ok /\ result.ret.value.status = "Simulated")
        => Held(result.ret.value.id)

\* Line counts summed over a list of FileDiffs
RECURSIVE LinesOf(_, _)
LinesOf(diffs, field) ==
    IF diffs = <<>> THEN 0
    ELSE (IF Head(diffs)[field] = None THEN 0 ELSE lines_count(Head(diffs)[field][1]))
         + LinesOf(Tail(diffs), field)

\* The summary C20 describes for a list of FileDiffs
SummaryOf(diffs) ==
    [added |-> LinesOf(diffs, "new_content"), deleted |-> LinesOf(diffs, "old_content"),
     unchanged |-> 0]

\* A step that dispatches one of the commands in Diff mode
DiffDispatch(command) ==
    /\ result'.op = "execute" /\ result'.command = command
    /\ mode = "Diff"
    /\ Dispatched(command)

\* The record's FileDiffs are the predicted ones
PredictedChanges(command) ==
    \E order \in KeyOrders(list_files(virtual_fs)) :
        result'.ret.value.file_changes =
            predict_file_changes(virtual_fs, ToolOf(command), ArgsOf(command), order)

\* C20 as claimed: every Diff-mode dispatch yields a Simulated record with a
\* DiffSummary of the summed line counts, also when no FileDiff is predicted.
C20_AsClaimed ==
    [][\A command \in Commands :
        DiffDispatch(command)
        => /\ result'.ret.ok
           /\ result'.ret.value.status = "Simulated"
           /\ PredictedChanges(command)
           /\ result'.ret.value.diff_summary =
                Some(SummaryOf(result'.ret.value.file_changes))]_vars

\* C20 amended: the DiffSummary is there when at least one FileDiff is
\* predicted, and absent when none is.
C20_DiffSummary ==
    [][\A command \in Commands :
        DiffDispatch(command)
        => /\ result'.ret.ok
           /\ result'.ret.value.status = "Simulated"
           /\ PredictedChanges(command)
           /\ result'.ret.value.file_changes # <<>> =>
                result'.ret.value.diff_summary =
                    Some(SummaryOf(result'.ret.value.file_changes))
           /\ result'.ret.value.file_changes = <<>> =>
                result'.ret.value.diff_summary = None]_vars

C20_Witness ==
    /\ result.op = "execute"
    /\ result.command = cmd_npm_install
    /\ mode = "Diff"
    /\ result.ret.ok
    /\ Len(result.ret.value.file_changes) = 2
    /\ result.ret.value.diff_summary = Some([added |-> 2, deleted |-> 0, unchanged |-> 0])


\* ------------------------------------------------------------------------
\* The session's claims on approval records, the history and the override
\* ------------------------------------------------------------------------
\* A step that submits "git status" in Diff mode with allow_all off and the
\* default registry
GitStatusInDiff ==
    /\ result'.op = "execute" /\ result'.command = cmd_git_status
    /\ mode = "Diff"
    /\ ~allow_all
    /\ permissions = default_permissions

C23_LiveRecordsSayLive ==
    /\ (/\ result.op \in {"execute", "approve"}
        /\ result.ret.ok
        /\ result.ret.value.status \in {"Success", "Failed"})
       => result.ret.value.mode = "Live"
    /\ \A i \in 1..Len(execution_history) :
          execution_history[i].status \in {"Success", "Failed"}
            => execution_history[i].mode = "Live"

\* h is an initial part of g, entry by entry
IsPrefix(h, g) == Len(h) <= Len(g) /\ \A i \in 1..Len(h) : g[i] = h[i]

\* C24: the record approve(id) returns has a fresh id, different from id; no
\* record with status PendingApproval is ever in the history; and apart from
\* reset, which empties it, no step changes a record that is in the history.
C24_ApproveMakesNewRecord ==
    [][/\ (result'.op = "approve" /\ result'.ret.ok) =>
            /\ result'.ret.value.id # result'.execution_id
            /\ result'.ret.value.id \notin DOMAIN pending_approvals
            /\ \A i \in 1..Len(execution_history) :
                  execution_history[i].id # result'.ret.value.id
       /\ \A i \in 1..Len(execution_history') :
            execution_history'[i].status # "PendingApproval"
       /\ result'.op # "reset" =>
            \A i \in 1..Len(execution_history) :
                /\ i <= Len(execution_history')
                /\ execution_history'[i] = execution_history[i]]_vars

C24_Witness ==
    /\ result.op = "approve"
    /\ result.ret.ok
    /\ result.execution_id = 1
    /\ result.ret.value.id = 2
    /\ execution_history = <<result.ret.value>>
    /\ pending_approvals = <<>>

\* C25: after approve(id) has returned a record, whatever its status, id is
\* out of the pending queue, exactly one process was run, a second
\* approve(id) fails with InvalidCommand and runs nothing, and id never
\* enters the queue again.
C25_ApprovedAtMostOnce ==
    [][/\ \A id \in ApproveIds :
            (result'.op = "approve" /\ result'.execution_id = id /\ result'.ret.ok) =>
                /\ id \notin DOMAIN pending_approvals'
                /\ Len(spawned') = 1
                /\ result'.ret.value.status \in {"Success", "Failed"}
                /\ \A outcome \in ProcessOutcomes :
                      approve(Self', id, uuids' + 1, outcome) =
                        Effect(Self', execution_history', pending_approvals',
                               Err("InvalidCommand"), <<>>, 0)
       /\ \A id \in 1..uuids :
            (id \notin DOMAIN pending_approvals /\ result'.op # "reset") =>
                id \notin DOMAIN pending_approvals'
      ]_vars

C25_Witness ==
    /\ result.op = "approve"
    /\ result.ret = Err("InvalidCommand")
    /\ result.execution_id = 1
    /\ uuids = 2
    /\ ~allow_all
    /\ Len(execution_history) = 1
    /\ execution_history[1].id = 2
    /\ execution_history[1].tool = s_git
    /\ execution_history[1].status = "Failed"
    /\ execution_history[1].exit_code = Some(1)

\* C27: every record in the history has status Success or Failed, approved =
\* true, no file changes and no diff summary; and every step but reset leaves
\* the history as it was or with records appended at its end.
C27_HistoryOfLiveRecords ==
    [][/\ \A i \in 1..Len(execution_history') :
            /\ execution_history'[i].status \in {"Success", "Failed"}
            /\ execution_history'[i].approved = TRUE
            /\ execution_history'[i].file_changes = <<>>
            /\ execution_history'[i].diff_summary = None
       /\ result'.op # "reset" => IsPrefix(execution_history, execution_history')
      ]_vars

C27_Witness ==
    /\ Len(execution_history) = 2
    /\ execution_history[1].status = "Failed"
    /\ execution_history[2].status = "Success"
    /\ execution_history[1].id = 1
    /\ execution_history[2].id = 2
    /\ result.op = "set_mode"

\* C28: every entry of the pending queue is stored under its own record id,
\* has status PendingApproval, approved = false and no exit code; the queue
\* has as many entries as approval-gated submits were made since the last
\* reset and not approved since, which is what status reports.
C28_PendingQueueShape ==
    /\ \A id \in DOMAIN pending_approvals :
          /\ pending_approvals[id].id = id
          /\ pending_approvals[id].status = "PendingApproval"
          /\ pending_approvals[id].approved = FALSE
          /\ pending_approvals[id].exit_code = None
    /\ Cardinality(DOMAIN pending_approvals) = Cardinality(DOMAIN issued)
    /\ status(Self).pending_approval_count = Cardinality(DOMAIN issued)

C28_Witness ==
    /\ DOMAIN pending_approvals = {2}
    /\ DOMAIN issued = {2}
    /\ result.op = "execute"
    /\ result.ret.ok
    /\ result.ret.value.id = 2
    /\ execution_history = <<>>
    /\ ~allow_all

\* C29: allow_all, once on, stays on (also over reset), and then every
\* command with at least one word, whatever its tool, is dispatched per the
\* current mode with permission level Full; no submit returns
\* PermissionDenied or a PendingApproval record, and none queues anything.
C29_OverrideIsSticky ==
    [][/\ allow_all => allow_all'
       /\ \A command \in Commands :
            (/\ result'.op = "execute" /\ result'.command = command
             /\ allow_all
             /\ Tokenizes(command))
            => /\ result'.ret.ok
               /\ result'.ret.value.permission_level = "Full"
               /\ mode = "Live" =>
                    /\ result'.ret.value.status \in {"Success", "Failed"}
                    /\ Len(spawned') = 1
               /\ mode # "Live" => result'.ret.value.status = "Simulated"
               /\ pending_approvals' = pending_approvals
       /\ (result'.op = "execute" /\ allow_all) =>
            /\ result'.ret # Err("PermissionDenied")
            /\ result'.ret.ok => result'.ret.value.status # "PendingApproval"
            /\ pending_approvals' = pending_approvals
      ]_vars

C29_Witness ==
    /\ allow_all
    /\ result.op = "execute"
    /\ result.command = cmd_sudo_ls
    /\ result.ret.ok
    /\ result.ret.value.status = "Success"
    /\ result.ret.value.permission_level = "Full"
    /\ Len(execution_history) = 2
    /\ execution_history[1].tool = s_git

\* ------------------------------------------------------------------------
\* The shadow's diff
\* ------------------------------------------------------------------------
\* The entries of a diff with the given operation
EntriesOf(diffs, operation) == {i \in 1..Len(diffs) : diffs[i].operation = operation}

\* The relative paths of the files of directory d
DiskPaths(d) == {Disk[d][i].path : i \in 1..Len(Disk[d])}

\* The content of the file of directory d at relative path p
DiskContent(d, p) == Disk[d][CHOOSE i \in 1..Len(Disk[d]) : Disk[d][i].path = p].content

\* The shadow is as a successful mount of one directory into an empty shadow
\* left it
JustMounted ==
    /\ Len(virtual_fs.mount_points) = 1
    /\ baseline = Some(virtual_fs.files)
    /\ virtual_fs.deleted_files = <<>>
    /\ DOMAIN virtual_fs.files = DiskPaths(virtual_fs.mount_points[1])

UnknownLetThrough ==
    /\ result'.op \in {"check_tool", "check_command", "check_path", "requires_approval"}
    /\ result'.tool \notin DOMAIN permissions.permissions
    /\ permissions.allow_unknown

\* C30: for a tool that is not registered, on a gate with allow_unknown set,
\* check_tool and check_command (whatever the arguments) return the gate's
\* default_level, check_path returns true for every path unless default_level
\* is Denied (then false), and requires_approval returns false, so that a
\* session with this gate dispatches the command in its mode, with
\* default_level on the record, and queues nothing.
C30_UnknownToolDefaults ==
    [][UnknownLetThrough =>
        /\ result'.op \in {"check_tool", "check_command"} =>
              result'.ret = Ok(permissions.default_level)
        /\ result'.op = "check_path" =>
              result'.ret = Ok(permissions.default_level # "Denied")
        /\ result'.op = "requires_approval" =>
              /\ result'.ret = FALSE
              /\ \A m \in ExecutionMode, args \in QueryArgs, outcome \in ProcessOutcomes :
                    LET sb == [Self EXCEPT !.mode = m]
                        e == execute_tool(sb, result'.tool, args, uuids + 1, outcome, <<>>)
                    IN /\ e.ret.ok
                       /\ e.ret.value.status # "PendingApproval"
                       /\ e.ret.value.status = "Simulated" <=> m # "Live"
                       /\ Len(e.calls) = 1 <=> m = "Live"
                       /\ e.ret.value.permission_level = permissions.default_level
                       /\ e.pending_approvals = pending_approvals
      ]_vars

C30_Witness ==
    /\ result.op = "check_command"
    /\ result.tool = s_ls
    /\ result.args = <<s_x, s_rf>>
    /\ s_rm \in DOMAIN permissions.permissions
    /\ permissions.permissions[s_rm].allowed_args = <<s_r>>
    /\ permissions.allow_unknown
    /\ permissions.default_level = "ReadOnly"
    /\ result.ret = Ok("ReadOnly")

\* ------------------------------------------------------------------------
\* Hunks of a change sequence
\* ------------------------------------------------------------------------
\* The positions lo..hi of changes whose tag is one of tags
Tagged(changes, lo, hi, tags) == {m \in lo..hi : changes[m].tag \in tags}

\* The positions where a maximal run of Insert/Delete changes starts
RunStarts(changes) ==
    {i \in 1..Len(changes) :
        /\ changes[i].tag # "Equal"
        /\ i = 1 \/ changes[i - 1].tag = "Equal"}

\* The last position of the run that starts at i
RunEnd(changes, i) ==
    CHOOSE j \in i..Len(changes) :
        /\ Tagged(changes, i, j, {"Equal"}) = {}
        /\ j = Len(changes) \/ changes[j + 1].tag = "Equal"

\* The start of the k-th run
NthStart(changes, k) ==
    CHOOSE i \in RunStarts(changes) :
        Cardinality({j \in RunStarts(changes) : j < i}) = k - 1

RECURSIVE SumOver(_, _)
SumOver(hunks, field) ==
    IF hunks = <<>> THEN 0 ELSE Head(hunks)[field] + SumOver(Tail(hunks), field)

\* C35: the hunks of unified_diff are the maximal runs of consecutive
\* Insert/Delete changes, in order, each with the run's changes and so
\* neither empty nor holding an Equal one; old_lines and new_lines count the
\* run's Delete and Insert tags; old_start is 1 plus the Equal and Delete
\* tags before the run, new_start 1 plus the Equal and Insert tags before it;
\* old_lines and new_lines summed over the hunks are diff_summary's deleted
\* and added, which count the Delete and Insert tags; and has_changes is
\* true exactly when there is a hunk.
C35_HunksAreRuns ==
    [][/\ result'.op = "unified_diff" =>
            LET changes == result'.changes
                hunks == result'.ret.hunks
                n == Len(changes)
            IN
            /\ Len(hunks) = Cardinality(RunStarts(changes))
            /\ \A k \in 1..Len(hunks) :
                  LET i == NthStart(changes, k)
                      j == RunEnd(changes, i)
                  IN
                  /\ Len(hunks[k].changes) = j - i + 1
                  /\ Len(hunks[k].changes) > 0
                  /\ \A m \in 1..(j - i + 1) :
                        /\ hunks[k].changes[m].change_type = changes[i + m - 1].tag
                        /\ hunks[k].changes[m].change_type # "Equal"
                        /\ hunks[k].changes[m].content = changes[i + m - 1].value
                  /\ hunks[k].old_lines = Cardinality(Tagged(changes, i, j, {"Delete"}))
                  /\ hunks[k].new_lines = Cardinality(Tagged(changes, i, j, {"Insert"}))
                  /\ hunks[k].old_start =
                        1 + Cardinality(Tagged(changes, 1, i - 1, {"Equal", "Delete"}))
                  /\ hunks[k].new_start =
                        1 + Cardinality(Tagged(changes, 1, i - 1, {"Equal", "Insert"}))
            /\ SumOver(hunks, "old_lines") = DiffEngine_diff_summary(changes).deleted
            /\ SumOver(hunks, "new_lines") = DiffEngine_diff_summary(changes).added
            /\ has_changes(DiffEngine_diff_summary(changes)) <=> Len(hunks) > 0
       /\ result'.op = "diff_summary" =>
            LET changes == result'.changes
                n == Len(changes)
            IN
            /\ result'.ret.deleted = Cardinality(Tagged(changes, 1, n, {"Delete"}))
            /\ result'.ret.added = Cardinality(Tagged(changes, 1, n, {"Insert"}))
            /\ result'.ret.unchanged = Cardinality(Tagged(changes, 1, n, {"Equal"}))
            /\ has_changes(result'.ret) <=> RunStarts(changes) # {}
      ]_vars

\* Insert, Equal, Delete, Insert: two hunks, the second at old line 2 and
\* new line 3
C35_Witness ==
    /\ result.op = "unified_diff"
    /\ Len(result.changes) = 4
    /\ result.changes[1].tag = "Insert"
    /\ result.changes[2].tag = "Equal"
    /\ result.changes[3].tag = "Delete"
    /\ result.changes[4].tag = "Insert"
    /\ Len(result.ret.hunks) = 2
    /\ result.ret.hunks[2].old_start = 2
    /\ result.ret.hunks[2].new_start = 3
    /\ result.ret.hunks[2].old_lines = 1
    /\ result.ret.hunks[2].new_lines = 1

\* ------------------------------------------------------------------------
\* Side-effect prediction
\* ------------------------------------------------------------------------
\* The number of arguments that begin with '>'
RECURSIVE Redirects(_)
Redirects(args) ==
    IF args = <<>> THEN 0
    ELSE (IF Head(args) # <<>> /\ Head(args)[1] = ">" THEN 1 ELSE 0) + Redirects(Tail(args))

\* C36: the file changes of every record dispatched in Diff mode are all
\* Modified with no old content: for git with an argument add or commit, one
\* per path live in the shadow and none for a path that is only tombstoned;
\* for npm with an argument install, package-lock.json and node_modules/;
\* for echo, tee or cat, one per argument that begins with '>'; none for
\* any other tool and arguments; and a diff summary, when the record has
\* one, has deleted = 0.
C36_PredictedChanges ==
    [][\A command \in PredictCommands :
        (/\ result'.op = "execute" /\ result'.command = command
         /\ mode = "Diff"
         /\ result'.ret.ok
         /\ result'.ret.value.status = "Simulated")
        => LET tool == ToolOf(command)
               args == ArgsOf(command)
               diffs == result'.ret.value.file_changes
               has(word) == \E i \in 1..Len(args) : args[i] = word
           IN
           /\ \A i \in 1..Len(diffs) :
                 /\ diffs[i].operation = "Modified"
                 /\ diffs[i].old_content = None
                 /\ diffs[i].new_content # None
           /\ (tool = s_git /\ (has(s_add) \/ has(s_commit))) =>
                 /\ Len(diffs) = Cardinality(Live)
                 /\ {diffs[i].path : i \in 1..Len(diffs)} = Live
           /\ (tool = s_npm /\ has(s_install)) =>
                 /\ Len(diffs) = 2
                 /\ diffs[1].path = PathBuf_from(n_package_lock)
                 /\ diffs[2].path = PathBuf_from(n_node_modules \o <<"/">>)
           /\ tool \in {s_echo, s_tee, s_cat} => Len(diffs) = Redirects(args)
           /\ ~ \/ tool = s_git /\ (has(s_add) \/ has(s_commit))
                \/ tool = s_npm /\ has(s_install)
                \/ tool \in {s_echo, s_tee, s_cat}
              => diffs = <<>>
           /\ result'.ret.value.diff_summary # None =>
                 result'.ret.value.diff_summary[1].deleted = 0
      ]_vars

\* git add was previewed in Diff mode while one path was live and another
\* only tombstoned
C36_Witness ==
    /\ result.op = "execute"
    /\ result.command = cmd_git_add
    /\ mode = "Diff"
    /\ result.ret.ok
    /\ result.ret.value.status = "Simulated"
    /\ Live = {f_a}
    /\ Tombstoned = {f_run}
    /\ Len(result.ret.value.file_changes) = 1
    /\ result.ret.value.file_changes[1].path = f_a
    /\ result.ret.value.diff_summary # None

\* ------------------------------------------------------------------------
\* Approval after the registry has changed
\* ------------------------------------------------------------------------
\* C26: approve(id) of a queued id succeeds and runs, once, the tool and
\* arguments that the submit queued, with the permission level the submit
\* resolved, whatever the registry says about the tool by then (level Denied,
\* arguments no longer allowed, no approval required); a queued record is not
\* changed while it waits.
C26_ApproveSkipsGate ==
    [][/\ \A id \in DOMAIN pending_approvals :
            (result'.op = "approve" /\ result'.execution_id = id) =>
                /\ result'.ret.ok
                /\ result'.ret.value.tool = issued[id].tool
                /\ result'.ret.value.args = issued[id].args
                /\ result'.ret.value.permission_level = pending_approvals[id].permission_level
                /\ result'.ret.value.status \in {"Success", "Failed"}
                /\ Len(spawned') = 1
                /\ spawned'[1].call = ProcessCall(Self, issued[id].tool, issued[id].args)
       /\ \A id \in (DOMAIN pending_approvals) \cap (DOMAIN pending_approvals') :
            pending_approvals'[id] = pending_approvals[id]
       /\ (result'.op = "execute" /\ result'.ret.ok
             /\ result'.ret.value.status = "PendingApproval") =>
            /\ check_command(permissions, result'.ret.value.tool, result'.ret.value.args)
                 = Ok(result'.ret.value.permission_level)
            /\ pending_approvals'[result'.ret.value.id] = result'.ret.value
      ]_vars

\* git status is approved and run while git is registered with level Denied
C26_Witness ==
    /\ result.op = "approve"
    /\ result.ret.ok
    /\ result.ret.value.tool = s_git
    /\ result.ret.value.args = <<s_status>>
    /\ result.ret.value.permission_level = "Full"
    /\ result.ret.value.status = "Success"
    /\ permissions.permissions[s_git].level = "Denied"
    /\ Len(spawned) = 1

\* ------------------------------------------------------------------------
\* The shadow's lookups, and what reset, diff and write do to live entries
\* ------------------------------------------------------------------------
NotFound == Err("VirtualFileNotFound")

\* C31: read(p) returns the live content when p is live and fails with
\* VirtualFileNotFound otherwise; exists(p) is true exactly when p is live or
\* tombstoned; right after a delete(p) that succeeded p is tombstoned and not
\* live, so exists(p) is true, read(p) fails with VirtualFileNotFound and
\* another delete(p) fails with VirtualFileNotFound and changes nothing; a
\* delete that fails leaves both mappings as they were.
C31_LookupsAfterDelete ==
    [][/\ result'.op = "read" =>
            /\ result'.ret.ok <=> result'.path \in Live
            /\ result'.ret.ok => result'.ret.value = virtual_fs.files[result'.path].content
            /\ ~result'.ret.ok => result'.ret = NotFound
       /\ result'.op = "exists" =>
            (result'.ret <=> result'.path \in Live \cup Tombstoned)
       /\ (result'.op = "delete" /\ result'.ret.ok) =>
            /\ result'.path \in Live
            /\ result'.path \in DOMAIN virtual_fs'.deleted_files
            /\ result'.path \notin DOMAIN virtual_fs'.files
            /\ exists(virtual_fs', result'.path) = TRUE
            /\ read(virtual_fs', result'.path) = NotFound
            /\ delete(virtual_fs', result'.path) = [vfs |-> virtual_fs', ret |-> NotFound]
       /\ (result'.op = "delete" /\ ~result'.ret.ok) =>
            /\ result'.path \notin Live
            /\ result'.ret = NotFound
            /\ virtual_fs' = virtual_fs
      ]_vars

\* a second delete of a tombstoned path has failed
C31_Witness ==
    /\ result.op = "delete"
    /\ result.ret = NotFound
    /\ result.path = f_run
    /\ f_run \in Tombstoned
    /\ f_run \notin Live
    /\ virtual_fs.mount_points # <<>>

\* C32 as claimed: reset leaves the content and the hash of every path that
\* was live when it was called as they were.
C32_ResetKeepsLive ==
    [][result'.op = "reset" =>
        \A p \in Live :
            /\ p \in DOMAIN virtual_fs'.files
            /\ virtual_fs'.files[p].content = virtual_fs.files[p].content
            /\ virtual_fs'.files[p].hash = virtual_fs.files[p].hash]_vars

\* C33 as claimed: no two entries of a diff have the same path.
C33_OneEntryPerPath ==
    [][result'.op = "get_diff" =>
        \A i, j \in 1..Len(result'.ret) :
            result'.ret[i].path = result'.ret[j].path => i = j]_vars

\* C34 as claimed: a write to a live path keeps the entry's executable flag,
\* permission bits and creation time, and touches no other path.
C34_WriteKeepsMetadata ==
    [][result'.op = "write" =>
        /\ result'.path \in Live =>
            /\ virtual_fs'.files[result'.path].is_executable
                 = virtual_fs.files[result'.path].is_executable
            /\ virtual_fs'.files[result'.path].permissions
                 = virtual_fs.files[result'.path].permissions
            /\ virtual_fs'.files[result'.path].created_at
                 = virtual_fs.files[result'.path].created_at
        /\ \A p \in Live \ {result'.path} :
              p \in DOMAIN virtual_fs'.files /\ virtual_fs'.files[p] = virtual_fs.files[p]
        /\ virtual_fs'.deleted_files = virtual_fs.deleted_files]_vars

====
